---------------------------- MODULE Spec2Model ----------------------------
(***************************************************************************)
(* AtomSi DAO: the proposal lifecycle (src/proposals/mod.rs), the          *)
(* treasury multi-approval workflow (src/treasury/mod.rs), the governance  *)
(* engine (src/governance) and the role permissions                        *)
(* (src/security/permissions.rs).                                          *)
(*                                                                         *)
(* Every handler is an async fn that loads a whole record from the         *)
(* database, works on its private copy and writes the whole record back    *)
(* (save_proposal / save_transaction are UPDATE ... SET data = $1).  No    *)
(* handler holds a lock or a database transaction across its awaits, so a  *)
(* handler is modelled as one step per database write: the step named      *)
(* after the handler does the load, the checks, the external call and the  *)
(* work on the private copy; the *_save step writes the copy back.         *)
(* A task of procs makes calls back to back; with procs a single task and  *)
(* no other caller the handlers run one at a time.  A task of racers has   *)
(* one call to make, which races with the calls of procs.  The database    *)
(* itself is taken to answer every query (no DatabaseError other than a    *)
(* missing row).                                                           *)
(*                                                                         *)
(* Fields that no handler reads (title, description, created_at,           *)
(* updated_at, Vote.timestamp, transaction_hash) are not carried.          *)
(* Option<DateTime> is a set: {} is None, {t} is Some(t).                  *)
(* voting_strategy is the strategy held by the governance engine           *)
(* (src/governance/mod.rs); acknowledged records, per transaction, the     *)
(* approvers whose approve_transaction call returned Ok.                   *)
(***************************************************************************)
EXTENDS Integers, Sequences, FiniteSets, TLC

VARIABLES
    config,         \* Config.governance: quorum_percentage, majority_percentage,
                    \* proposal_threshold
    blockchain,     \* the BlockchainAdapter: per address, the balances that
                    \* balance(address) may return
    permissions,    \* PermissionManager.permissions: role -> resource -> permissions
    voting_strategy, \* GovernanceEngine.voting_strategy
    delegations,    \* table delegations: the rows, in the order of their INSERT
    now,            \* Utc::now()
    proposals,      \* table proposals: id -> the stored Proposal
    dispatched,     \* per proposal id: send_transaction / call_contract calls made
    transactions,   \* table treasury_transactions: id -> the stored Transaction
    token_balances, \* table token_balances of the ledger token: address -> balance
    transfers,      \* per transaction id: the TokenManager::transfer calls that moved
                    \* funds, each as the handler the caller had called and its caller
    acknowledged,   \* per transaction id: the signers whose approve_transaction
                    \* call has returned Ok
    procs,          \* the caller tasks that make calls back to back
    racers,         \* the caller tasks that have a single call still to make
    pc,             \* per task: where it is in its handler
    loc,            \* per task: the handler's local variables
    ret             \* what the step just taken returned to its caller

vars == <<config, blockchain, permissions, voting_strategy, delegations, now, proposals, dispatched, transactions, token_balances,
          transfers, acknowledged, procs, racers, pc, loc, ret>>

propVars == <<proposals, dispatched>>
treasVars == <<transactions, token_balances, transfers, acknowledged>>

----------------------------------------------------------------------------
(* Bounds of the model *)

MaxTime == 2
MaxBalance == 1
MaxDispatch == 2
MaxAmount == 2
MaxRequired == 2
MaxTransfers == 2
InitialTreasury == 2
MaxDelegations == 3

(* Config.governance values read by the handlers *)
proposal_threshold == config.proposal_threshold
voting_period_days == 1

(* Config.treasury.signers *)
signers == 2

QuorumPcts == {20, 150}
MajorityPcts == {50}
Thresholds == {1}

Procs == {"p1", "p2"}
Ids == {"P1"}
Proposers == {"a1"}
Addr == {"a1", "a2"}
Balances == 0..MaxBalance

TxIds == {"T1"}
Tokens == {"GOV", "TKN"}
governance_token == "GOV"
SignerNames == <<"0xSigner0", "0xSigner1", "0xSigner2">>
Approvers == {"0xSigner0", "0xSigner1", "0xOther"}
TransactionStatus == {"Pending", "Approved", "Executed", "Rejected", "Failed"}

\* voting powers of the votes already cast when a finalization run starts
TallyPowers == {100, 900}

VotingStrategies == {"TokenWeightedVoting", "QuadraticVoting", "ConvictionVoting"}
ProposalTypes == {"Transfer", "ContractCall", "ParameterChange", "TextProposal"}
ProposalVote == {"Yes", "No", "Abstain"}
ProposalState == {"Draft", "Voting", "Approved", "Rejected", "Executed", "Cancelled"}

\* identity::MemberRole
MemberRole == {"Member", "Delegate", "Council", "Admin"}

\* the resources and permissions of init_default_permissions, and one of
\* each that it does not name
Resources == {"proposal", "vote", "token", "treasury", "member", "settings",
              "unknown_resource"}
Permissions == {"create", "read", "update", "delete", "unknown_permission"}

\* the roles, resources and permissions that callers grant and revoke
GrantedRoles == {"Admin", "Member"}
GrantedResources == {"proposal", "unknown_resource"}
GrantedPermissions == {"delete", "unknown_permission"}

\* the configuration labels GovernanceEngine::new may find: the two it
\* recognises, the governance token, and two it does not recognise
Labels == {"Quadratic", "Conviction", "GOV", "quadratic", ""}

\* the balances the adapter may answer to the governance engine
EngineBalances == {0, 1, 2, 100, 10000, 2147483647}

\* the strings and amounts a caller puts into the fields of a proposal
Texts == {"", "x"}
Fields ==
    [ title : Texts, description : Texts, address_valid : BOOLEAN,
      amount : 0..1, name : Texts, value_null : BOOLEAN ]

\* the fields of a proposal of type ptype: a field that the variant of
\* ProposalType does not have is left at a filler value
FieldsOf(ptype) ==
    {f \in Fields :
       /\ ptype \notin {"Transfer", "ContractCall"} => f.address_valid
       /\ ptype # "Transfer" => f.amount = 1
       /\ ptype = "TextProposal" => f.name = "x"
       /\ ptype # "ParameterChange" => ~f.value_null}

----------------------------------------------------------------------------
(* Task bookkeeping *)

NoLocals == [op |-> "none"]
NoResult == [op |-> "none", id |-> "", who |-> "", res |-> ""]

Result(op, id, who, res) == [op |-> op, id |-> id, who |-> who, res |-> res]

\* the handler returns res to its caller
Return(p, op, id, who, res) ==
    /\ racers' = racers \ {p}
    /\ pc' = [pc EXCEPT ![p] = "idle"]
    /\ loc' = [loc EXCEPT ![p] = NoLocals]
    /\ ret' = Result(op, id, who, res)

\* the handler goes on to its next await with locals l
Goto(p, label, l) ==
    /\ racers' = racers \ {p}
    /\ pc' = [pc EXCEPT ![p] = label]
    /\ loc' = [loc EXCEPT ![p] = l]
    /\ ret' = NoResult

\* task p is free to make a call
Idle(p) == p \in procs \cup racers /\ pc[p] = "idle"

\* a table with the row of id replaced (UPDATE) or added (INSERT)
Upsert(table, id, row) ==
    [i \in DOMAIN table \cup {id} |-> IF i = id THEN row ELSE table[i]]

----------------------------------------------------------------------------
(* Proposals *)

\* ProposalBuilder::build
build(ptype, proposer) ==
    [ proposal_type |-> ptype,
      proposer |-> proposer,
      state |-> "Draft",
      voting_starts_at |-> {},
      voting_ends_at |-> {},
      execution_date |-> {},
      yes_votes |-> 0,
      no_votes |-> 0,
      abstain_votes |-> 0,
      votes |-> << >> ]

\* types::Vote
Vote(voter, vote, voting_power) ==
    [voter |-> voter, vote |-> vote, voting_power |-> voting_power]

\* get_proposal: query_one fails when no row has the id
proposal_exists(id) == id \in DOMAIN proposals

\* save_proposal: the row is replaced whole (UPDATE) or added (INSERT)
save_proposal(id, proposal) ==
    proposals' = Upsert(proposals, id, proposal)

\* has_voted as it would be without the double-vote check
has_voted_never(proposal, voter) == FALSE

\* vote: proposal.votes.iter().any(|v| v.voter == voter)
has_voted(proposal, voter) ==
    \E i \in 1..Len(proposal.votes) : proposal.votes[i].voter = voter

\* record_vote as it would be if an abstention were pushed but not tallied
record_vote_no_abstain(proposal, voter, vote, voting_power) ==
    [ proposal EXCEPT
        !.yes_votes = IF vote = "Yes" THEN @ + voting_power ELSE @,
        !.no_votes = IF vote = "No" THEN @ + voting_power ELSE @,
        !.votes = Append(@, Vote(voter, vote, voting_power)) ]

\* vote: the tally of the choice grows by voting_power, the Vote is pushed
\* (tallies are u64; the balances of the model stay far below that range)
record_vote(proposal, voter, vote, voting_power) ==
    [ proposal EXCEPT
        !.yes_votes = IF vote = "Yes" THEN @ + voting_power ELSE @,
        !.no_votes = IF vote = "No" THEN @ + voting_power ELSE @,
        !.abstain_votes = IF vote = "Abstain" THEN @ + voting_power ELSE @,
        !.votes = Append(@, Vote(voter, vote, voting_power)) ]

\* validate_proposal as it would be without the check of the amount
validate_proposal_any_amount(ptype, f) ==
    IF f.title = "" THEN "InvalidParameter"
    ELSE IF f.description = "" THEN "InvalidParameter"
    ELSE CASE ptype = "Transfer" ->
                IF ~f.address_valid THEN "InvalidParameter"
                ELSE IF f.name = "" THEN "InvalidParameter"
                ELSE "Ok"
           [] ptype = "ContractCall" ->
                IF ~f.address_valid THEN "InvalidParameter"
                ELSE IF f.name = "" THEN "InvalidParameter"
                ELSE "Ok"
           [] ptype = "ParameterChange" ->
                IF f.name = "" THEN "InvalidParameter"
                ELSE IF f.value_null THEN "InvalidParameter"
                ELSE "Ok"
           [] OTHER -> "Ok"

\* validate_proposal: title and description, then the fields of the type
\* (f.name is the token of a Transfer, the function of a ContractCall, the
\* parameter of a ParameterChange; f.address_valid is the adapter's
\* is_valid_address of the recipient or the contract)
validate_proposal(ptype, f) ==
    IF f.title = "" THEN "InvalidParameter"
    ELSE IF f.description = "" THEN "InvalidParameter"
    ELSE CASE ptype = "Transfer" ->
                IF ~f.address_valid THEN "InvalidParameter"
                ELSE IF f.amount = 0 THEN "InvalidParameter"
                ELSE IF f.name = "" THEN "InvalidParameter"
                ELSE "Ok"
           [] ptype = "ContractCall" ->
                IF ~f.address_valid THEN "InvalidParameter"
                ELSE IF f.name = "" THEN "InvalidParameter"
                ELSE "Ok"
           [] ptype = "ParameterChange" ->
                IF f.name = "" THEN "InvalidParameter"
                ELSE IF f.value_null THEN "InvalidParameter"
                ELSE "Ok"
           [] OTHER -> "Ok"

\* submit_proposal: what it returns for a proposal of type ptype with the
\* fields f, balance being what blockchain.balance(proposer) returned
submit_check(ptype, f, balance) ==
    IF balance = {} THEN "BlockchainError"
    ELSE IF \E b \in balance : b < proposal_threshold THEN "Unauthorized"
    ELSE validate_proposal(ptype, f)

\* submit_proposal: balance check, validate_proposal, save_proposal
\* (the proposal is the builder's, with a fresh Uuid as its id)
submit_proposal(p) ==
    /\ Idle(p)
    /\ \E id \in Ids \ DOMAIN proposals, ptype \in ProposalTypes,
          proposer \in Proposers :
       \E f \in FieldsOf(ptype), balance \in {{}} \cup {{b} : b \in blockchain[proposer]} :
         /\ IF submit_check(ptype, f, balance) = "Ok"
            THEN save_proposal(id, build(ptype, proposer))
            ELSE UNCHANGED proposals
         /\ racers' = racers \ {p}
         /\ pc' = [pc EXCEPT ![p] = "idle"]
         /\ loc' = [loc EXCEPT ![p] = NoLocals]
         /\ ret' = [op |-> "submit_proposal", id |-> id, who |-> proposer,
                    res |-> submit_check(ptype, f, balance),
                    proposal_type |-> ptype, fields |-> f, balance |-> balance]
    /\ UNCHANGED <<config, blockchain, delegations, permissions, voting_strategy, now, dispatched, treasVars, procs>>

\* vote_check as it would be if the voting period excluded its last instant
vote_check_exclusive(proposal, voter, balance) ==
    IF proposal.state # "Voting" THEN "InvalidParameter"
    ELSE IF proposal.voting_starts_at = {} \/ proposal.voting_ends_at = {}
    THEN "InternalError"
    ELSE IF \E t \in proposal.voting_starts_at : now < t THEN "InvalidParameter"
    ELSE IF \E t \in proposal.voting_ends_at : now >= t THEN "InvalidParameter"
    ELSE IF has_voted(proposal, voter) THEN "InvalidParameter"
    ELSE IF balance = {} THEN "BlockchainError"
    ELSE IF 0 \in balance THEN "Unauthorized"
    ELSE "Ok"

\* vote: the checks between the load and the save, as the error they
\* return ("Ok" when all pass); balance is what blockchain.balance(voter)
\* returned, {} for Err and {b} for Ok(b)
vote_check(proposal, voter, balance) ==
    IF proposal.state # "Voting" THEN "InvalidParameter"
    ELSE IF proposal.voting_starts_at = {} \/ proposal.voting_ends_at = {}
    THEN "InternalError"
    ELSE IF \E t \in proposal.voting_starts_at : now < t THEN "InvalidParameter"
    ELSE IF \E t \in proposal.voting_ends_at : now > t THEN "InvalidParameter"
    ELSE IF has_voted(proposal, voter) THEN "InvalidParameter"
    ELSE IF balance = {} THEN "BlockchainError"
    ELSE IF 0 \in balance THEN "Unauthorized"
    ELSE "Ok"

\* vote: load, state check, window check, double-vote check, weight check
vote(p) ==
    /\ Idle(p)
    /\ \E id \in Ids, voter \in DOMAIN blockchain, choice \in ProposalVote :
       \E balance \in {{}} \cup {{b} : b \in blockchain[voter]} :
         IF ~proposal_exists(id)
         THEN Return(p, "vote", id, voter, "DatabaseError")
         ELSE IF vote_check(proposals[id], voter, balance) # "Ok"
         THEN Return(p, "vote", id, voter,
                     vote_check(proposals[id], voter, balance))
         ELSE LET voting_power == CHOOSE b \in balance : TRUE IN
              Goto(p, "vote_save",
                   [op |-> "vote", id |-> id, who |-> voter,
                    voting_power |-> voting_power,
                    proposal |-> record_vote(proposals[id], voter, choice,
                                             voting_power)])
    /\ UNCHANGED <<config, blockchain, delegations, permissions, voting_strategy, now, propVars, treasVars, procs>>

\* vote: self.save_proposal(&proposal).await?; Ok(())
vote_save(p) ==
    /\ pc[p] = "vote_save"
    /\ save_proposal(loc[p].id, loc[p].proposal)
    /\ Return(p, "vote", loc[p].id, loc[p].who, "Ok")
    /\ UNCHANGED <<config, blockchain, delegations, permissions, voting_strategy, now, dispatched, treasVars, procs>>

\* effect_of as it would be if a parameter change were executed as a no-op
effect_of_silent(ptype) ==
    CASE ptype = "Transfer" -> "send_transaction"
      [] ptype = "ContractCall" -> "call_contract"
      [] OTHER -> "None"

\* execute_proposal: the effect the proposal type asks for; "None" when the
\* type needs no external call, "Err" when the type is not supported
effect_of(ptype) ==
    CASE ptype = "Transfer" -> "send_transaction"
      [] ptype = "ContractCall" -> "call_contract"
      [] ptype = "ParameterChange" -> "Err"
      [] OTHER -> "None"

\* executable as it would be if a proposal still in Voting could be executed
executable_early(proposal) ==
    proposal.state = "Approved" \/ proposal.state = "Voting"

\* execute_proposal: the state a proposal must be in
executable(proposal) == proposal.state = "Approved"

\* execute_proposal: state Executed with the execution timestamp
mark_executed(proposal) ==
    [proposal EXCEPT !.state = "Executed", !.execution_date = {now}]

\* execute_proposal: load, state check, dispatch by type
execute_proposal(p) ==
    /\ Idle(p)
    /\ \E id \in Ids, chain_ok \in BOOLEAN :
         IF ~proposal_exists(id)
         THEN /\ Return(p, "execute_proposal", id, "", "DatabaseError")
              /\ UNCHANGED dispatched
         ELSE LET proposal == proposals[id]
                  effect == effect_of(proposal.proposal_type) IN
         IF ~executable(proposal)
         THEN /\ Return(p, "execute_proposal", id, "", "InvalidParameter")
              /\ UNCHANGED dispatched
         ELSE IF effect = "Err"
         THEN /\ Return(p, "execute_proposal", id, "", "NotSupported")
              /\ UNCHANGED dispatched
         ELSE IF effect = "None"
         THEN /\ Goto(p, "execute_proposal_save",
                      [op |-> "execute_proposal", id |-> id, who |-> "",
                       proposal |-> mark_executed(proposal)])
              /\ UNCHANGED dispatched
         ELSE IF ~chain_ok
         THEN /\ Return(p, "execute_proposal", id, "", "BlockchainError")
              /\ UNCHANGED dispatched
         ELSE /\ dispatched[id] < MaxDispatch
              /\ dispatched' = [dispatched EXCEPT ![id] = @ + 1]
              /\ Goto(p, "execute_proposal_save",
                      [op |-> "execute_proposal", id |-> id, who |-> "",
                       proposal |-> mark_executed(proposal)])
    /\ UNCHANGED <<config, blockchain, delegations, permissions, voting_strategy, now, proposals, treasVars, procs>>

\* execute_proposal: self.save_proposal(&proposal).await?; Ok(())
execute_proposal_save(p) ==
    /\ pc[p] = "execute_proposal_save"
    /\ save_proposal(loc[p].id, loc[p].proposal)
    /\ Return(p, "execute_proposal", loc[p].id, "", "Ok")
    /\ UNCHANGED <<config, blockchain, delegations, permissions, voting_strategy, now, dispatched, treasVars, procs>>

\* startable as it would be if a cancelled proposal could be opened for voting
startable_again(proposal) == proposal.state \in {"Draft", "Cancelled"}

\* start_voting: the state a proposal must be in
startable(proposal) == proposal.state = "Draft"

\* start_voting: load, state check, open the voting window
start_voting(p) ==
    /\ Idle(p)
    /\ \E id \in Ids :
         IF ~proposal_exists(id)
         THEN Return(p, "start_voting", id, "", "DatabaseError")
         ELSE LET proposal == proposals[id] IN
         IF ~startable(proposal)
         THEN Return(p, "start_voting", id, "", "InvalidParameter")
         ELSE Goto(p, "start_voting_save",
                   [op |-> "start_voting", id |-> id, who |-> "",
                    proposal |-> [proposal EXCEPT
                                    !.state = "Voting",
                                    !.voting_starts_at = {now},
                                    !.voting_ends_at = {now + voting_period_days}]])
    /\ UNCHANGED <<config, blockchain, delegations, permissions, voting_strategy, now, propVars, treasVars, procs>>

\* start_voting: self.save_proposal(&proposal).await?; Ok(())
start_voting_save(p) ==
    /\ pc[p] = "start_voting_save"
    /\ save_proposal(loc[p].id, loc[p].proposal)
    /\ Return(p, "start_voting", loc[p].id, "", "Ok")
    /\ UNCHANGED <<config, blockchain, delegations, permissions, voting_strategy, now, dispatched, treasVars, procs>>

\* cancellable as it would be if only a Draft could be cancelled
cancellable_draft_only(proposal) == proposal.state = "Draft"

\* cancellable as it would be without the state check
cancellable_any(proposal) == proposal.state # "Cancelled"

\* cancel_proposal: the states a proposal may be cancelled in
cancellable(proposal) == proposal.state = "Draft" \/ proposal.state = "Voting"

\* cancel_proposal: load, state check, proposer check
cancel_proposal(p) ==
    /\ Idle(p)
    /\ \E id \in Ids, canceller \in Addr :
         IF ~proposal_exists(id)
         THEN Return(p, "cancel_proposal", id, canceller, "DatabaseError")
         ELSE LET proposal == proposals[id] IN
         IF ~cancellable(proposal)
         THEN Return(p, "cancel_proposal", id, canceller, "InvalidParameter")
         ELSE IF proposal.proposer # canceller
         THEN Return(p, "cancel_proposal", id, canceller, "Unauthorized")
         ELSE Goto(p, "cancel_proposal_save",
                   [op |-> "cancel_proposal", id |-> id, who |-> canceller,
                    proposal |-> [proposal EXCEPT !.state = "Cancelled"]])
    /\ UNCHANGED <<config, blockchain, delegations, permissions, voting_strategy, now, propVars, treasVars, procs>>

\* cancel_proposal: self.save_proposal(&proposal).await?; Ok(())
cancel_proposal_save(p) ==
    /\ pc[p] = "cancel_proposal_save"
    /\ save_proposal(loc[p].id, loc[p].proposal)
    /\ Return(p, "cancel_proposal", loc[p].id, loc[p].who, "Ok")
    /\ UNCHANGED <<config, blockchain, delegations, permissions, voting_strategy, now, dispatched, treasVars, procs>>

\* finalize_state as it would be if the majority were sought among the no votes
finalize_state_swapped(proposal) ==
    LET total_votes == proposal.yes_votes + proposal.no_votes + proposal.abstain_votes
        quorum_threshold == (config.quorum_percentage * total_votes) \div 100
        majority_threshold ==
            (config.majority_percentage * (proposal.yes_votes + proposal.no_votes)) \div 100
    IN IF total_votes < quorum_threshold THEN "Rejected"
       ELSE IF proposal.no_votes >= majority_threshold THEN "Approved"
       ELSE "Rejected"

\* finalize_state as it would be with a strict majority comparison
finalize_state_strict(proposal) ==
    LET total_votes == proposal.yes_votes + proposal.no_votes + proposal.abstain_votes
        quorum_threshold == (config.quorum_percentage * total_votes) \div 100
        majority_threshold ==
            (config.majority_percentage * (proposal.yes_votes + proposal.no_votes)) \div 100
    IN IF total_votes < quorum_threshold THEN "Rejected"
       ELSE IF proposal.yes_votes > majority_threshold THEN "Approved"
       ELSE "Rejected"

\* finalize_vote: the state the tallies decide
finalize_state(proposal) ==
    LET total_votes == proposal.yes_votes + proposal.no_votes + proposal.abstain_votes
        quorum_threshold == (config.quorum_percentage * total_votes) \div 100
        majority_threshold ==
            (config.majority_percentage * (proposal.yes_votes + proposal.no_votes)) \div 100
    IN IF total_votes < quorum_threshold THEN "Rejected"
       ELSE IF proposal.yes_votes >= majority_threshold THEN "Approved"
       ELSE "Rejected"

\* voting_ended as it would be if the sweep waited one more unit of time
voting_ended_late(proposal) == \E t \in proposal.voting_ends_at : now > t + 1

\* process_proposals: if let Some(voting_ends_at) ... if now > voting_ends_at
voting_ended(proposal) == \E t \in proposal.voting_ends_at : now > t

\* process_proposals: the rows get_proposals(Some(Voting)) returns whose
\* voting period has ended, as the loop meets them (a finalization touches
\* its own row only)
RECURSIVE ended_voting(_)
ended_voting(ids) ==
    IF ids = {} THEN << >>
    ELSE LET id == CHOOSE i \in ids : TRUE IN
         IF proposals[id].state = "Voting" /\ voting_ended(proposals[id])
         THEN <<[id |-> id, proposal |-> proposals[id]]>> \o ended_voting(ids \ {id})
         ELSE ended_voting(ids \ {id})

\* process_proposals: load the proposals in Voting, read the clock
process_proposals(p) ==
    /\ Idle(p)
    /\ LET queue == ended_voting(DOMAIN proposals) IN
         IF queue = << >>
         THEN Return(p, "process_proposals", "", "", "Ok")
         ELSE Goto(p, "finalize_vote", [op |-> "process_proposals", queue |-> queue])
    /\ UNCHANGED <<config, blockchain, delegations, permissions, voting_strategy, now, propVars, treasVars, procs>>

\* finalize_vote: decide the state of the next loaded proposal and save it
finalize_vote(p) ==
    /\ pc[p] = "finalize_vote"
    /\ LET head == Head(loc[p].queue)
           rest == Tail(loc[p].queue)
       IN /\ save_proposal(head.id,
                 [head.proposal EXCEPT !.state = finalize_state(head.proposal)])
          /\ IF rest = << >>
             THEN Return(p, "process_proposals", "", "", "Ok")
             ELSE Goto(p, "finalize_vote", [op |-> "process_proposals", queue |-> rest])
    /\ UNCHANGED <<config, blockchain, delegations, permissions, voting_strategy, now, dispatched, treasVars, procs>>

----------------------------------------------------------------------------
(* Treasury *)

\* get_signers: "0xSigner0" .. "0xSigner{signers - 1}"
get_signers == {SignerNames[i + 1] : i \in 0..(signers - 1)}

\* TransactionBuilder::build
build_transaction(token, amount, required_approvals) ==
    [ to |-> "0xRecipient",
      token |-> token,
      amount |-> amount,
      status |-> "Pending",
      required_approvals |-> required_approvals,
      current_approvals |-> 0,
      executed_at |-> {},
      approvers |-> << >>,
      metadata |-> "Null" ]

\* get_transaction: query_one fails when no row has the id
transaction_exists(id) == id \in DOMAIN transactions

\* save_transaction: the row is replaced whole (UPDATE) or added (INSERT)
save_transaction(id, transaction) ==
    transactions' = Upsert(transactions, id, transaction)

\* Vec::contains
Contains(seq, x) == \E i \in 1..Len(seq) : seq[i] = x

\* TokenManager::token_exists
token_exists(symbol) == symbol \in Tokens

\* TokenManager::get_balance: the governance token's balance is the chain's
\* answer, any other token's balance is its token_balances row (0 if none)
get_balance(symbol, address, chain_balance) ==
    IF symbol = governance_token THEN chain_balance
    ELSE IF address \in DOMAIN token_balances THEN token_balances[address]
    ELSE 0

\* TokenManager::transfer: its result for a transfer out of 0xTreasury
transfer_result(symbol, amount, chain_balance, chain_ok) ==
    IF ~token_exists(symbol) THEN "InvalidParameter"
    ELSE IF get_balance(symbol, "0xTreasury", chain_balance) < amount
    THEN "InvalidParameter"
    ELSE IF symbol = governance_token /\ ~chain_ok THEN "BlockchainError"
    ELSE "Ok"

\* TokenManager::transfer: the token_balances table after a transfer that
\* succeeded (the governance token moves on the chain, not in the table)
transfer_balances(symbol, to, amount) ==
    IF symbol = governance_token THEN token_balances
    ELSE LET debited == [token_balances EXCEPT !["0xTreasury"] = @ - amount]
         IN Upsert(debited, to,
                   (IF to \in DOMAIN debited THEN debited[to] ELSE 0) + amount)

\* create_check as it would be without the check of the treasury balance
create_check_no_balance(token, amount, chain_balance) ==
    IF ~token_exists(token) THEN "InvalidParameter"
    ELSE IF token = governance_token /\ chain_balance = {} THEN "BlockchainError"
    ELSE "Ok"

\* create_transaction: what it returns for a transaction of amount of
\* token, chain_balance being what blockchain.balance("0xTreasury") returns,
\* {} for Err and {b} for Ok(b)
create_check(token, amount, chain_balance) ==
    IF ~token_exists(token) THEN "InvalidParameter"
    ELSE IF token = governance_token /\ chain_balance = {} THEN "BlockchainError"
    ELSE LET answer == IF chain_balance = {} THEN 0
                       ELSE CHOOSE b \in chain_balance : TRUE
         IN IF get_balance(token, "0xTreasury", answer) < amount
            THEN "InvalidParameter"
            ELSE "Ok"

\* create_transaction: token check, treasury balance check, save_transaction
\* (the transaction is the builder's, with a fresh Uuid as its id and
\* required_approvals > 0)
create_transaction(p) ==
    /\ Idle(p)
    /\ \E id \in TxIds \ DOMAIN transactions, token \in Tokens \cup {"BAD"},
          amount \in 1..MaxAmount, required_approvals \in 1..MaxRequired,
          chain_balance \in {{}} \cup {{b} : b \in 0..MaxAmount} :
         /\ IF create_check(token, amount, chain_balance) = "Ok"
            THEN save_transaction(id, build_transaction(token, amount, required_approvals))
            ELSE UNCHANGED transactions
         /\ racers' = racers \ {p}
         /\ pc' = [pc EXCEPT ![p] = "idle"]
         /\ loc' = [loc EXCEPT ![p] = NoLocals]
         /\ ret' = [op |-> "create_transaction", id |-> id, who |-> "",
                    res |-> create_check(token, amount, chain_balance),
                    token |-> token, amount |-> amount,
                    chain_balance |-> chain_balance]
    /\ UNCHANGED <<config, blockchain, delegations, permissions, voting_strategy, now, propVars, token_balances, transfers, acknowledged, procs>>

\* approve_transaction: its two InvalidParameter errors, with their messages
NotPending == "InvalidParameter(Transaction is not in a pending state)"
AlreadyApproved == "InvalidParameter(Approver has already approved this transaction)"

\* approve_check as it would be without the already-approved check
approve_check_no_repeat(transaction, approver) ==
    IF transaction.status # "Pending" THEN NotPending
    ELSE IF approver \notin get_signers THEN "Unauthorized"
    ELSE "Ok"

\* approve_check as it would be without the signer check
approve_check_no_signer(transaction, approver) ==
    IF transaction.status # "Pending" THEN NotPending
    ELSE IF Contains(transaction.approvers, approver) THEN AlreadyApproved
    ELSE "Ok"

\* approve_transaction: the checks between the load and the push, as the
\* error they return ("Ok" when all pass)
approve_check(transaction, approver) ==
    IF transaction.status # "Pending" THEN NotPending
    ELSE IF approver \notin get_signers THEN "Unauthorized"
    ELSE IF Contains(transaction.approvers, approver) THEN AlreadyApproved
    ELSE "Ok"

\* approve_transaction: the approver is pushed and counted; Approved once
\* current_approvals >= required_approvals
add_approval(transaction, approver) ==
    LET pushed == [transaction EXCEPT
                     !.approvers = Append(@, approver),
                     !.current_approvals = @ + 1]
    IN IF pushed.current_approvals >= pushed.required_approvals
       THEN [pushed EXCEPT !.status = "Approved"]
       ELSE pushed

\* approve_transaction: load, status check, signer check, double-approval check
approve_transaction(p) ==
    /\ Idle(p)
    /\ \E id \in TxIds, approver \in Approvers :
         IF ~transaction_exists(id)
         THEN Return(p, "approve_transaction", id, approver, "DatabaseError")
         ELSE IF approve_check(transactions[id], approver) # "Ok"
         THEN Return(p, "approve_transaction", id, approver,
                     approve_check(transactions[id], approver))
         ELSE Goto(p, "approve_transaction_save",
                   [op |-> "approve_transaction", id |-> id, who |-> approver,
                    transaction |-> add_approval(transactions[id], approver)])
    /\ UNCHANGED <<config, blockchain, delegations, permissions, voting_strategy, now, propVars, treasVars, procs>>

\* approve_transaction: save, then execute_transaction if now Approved
approve_transaction_save(p) ==
    /\ pc[p] = "approve_transaction_save"
    /\ save_transaction(loc[p].id, loc[p].transaction)
    /\ IF loc[p].transaction.status = "Approved"
       THEN /\ Goto(p, "approve_transaction_execute",
                    [op |-> "approve_transaction", id |-> loc[p].id, who |-> loc[p].who])
            /\ UNCHANGED acknowledged
       ELSE /\ Return(p, "approve_transaction", loc[p].id, loc[p].who, "Ok")
            /\ acknowledged' = [acknowledged EXCEPT ![loc[p].id] = @ \cup {loc[p].who}]
    /\ UNCHANGED <<config, blockchain, delegations, permissions, voting_strategy, now, propVars, token_balances, transfers, procs>>

\* transferable as it would be if an Executed transaction could be executed again
transferable_again(transaction) ==
    transaction.status = "Approved" \/ transaction.status = "Executed"

\* execute_transaction: the status a transaction must be in
transferable(transaction) == transaction.status = "Approved"

\* execute_transaction, up to its save: load, status check, transfer; the
\* private copy becomes Executed, or Failed with the error in its metadata
execute(p, op, id, who) ==
    IF ~transaction_exists(id)
    THEN /\ Return(p, op, id, who, "DatabaseError")
         /\ UNCHANGED <<token_balances, transfers>>
    ELSE LET transaction == transactions[id] IN
    IF ~transferable(transaction)
    THEN /\ Return(p, op, id, who, "InvalidParameter")
         /\ UNCHANGED <<token_balances, transfers>>
    ELSE \E chain_balance \in 0..MaxAmount, chain_ok \in BOOLEAN :
         LET result == transfer_result(transaction.token, transaction.amount,
                                       chain_balance, chain_ok)
         IN IF result = "Ok"
            THEN /\ Len(transfers[id]) < MaxTransfers
                 /\ transfers' = [transfers EXCEPT
                                   ![id] = Append(@, [op |-> op, who |-> who])]
                 /\ token_balances' = transfer_balances(transaction.token,
                                          transaction.to, transaction.amount)
                 /\ Goto(p, "execute_transaction_save",
                         [op |-> op, id |-> id, who |-> who, result |-> result,
                          transaction |-> [transaction EXCEPT
                                             !.status = "Executed",
                                             !.executed_at = {now}]])
            ELSE /\ UNCHANGED <<token_balances, transfers>>
                 /\ Goto(p, "execute_transaction_save",
                         [op |-> op, id |-> id, who |-> who, result |-> result,
                          transaction |-> [transaction EXCEPT
                                             !.status = "Failed",
                                             !.metadata = result]])

\* execute_transaction called by a caller task
execute_transaction(p) ==
    /\ Idle(p)
    /\ \E id \in TxIds : execute(p, "execute_transaction", id, "")
    /\ UNCHANGED <<config, blockchain, delegations, permissions, voting_strategy, now, propVars, transactions, acknowledged, procs>>

\* execute_transaction called by approve_transaction: its error is
\* approve_transaction's error
approve_transaction_execute(p) ==
    /\ pc[p] = "approve_transaction_execute"
    /\ execute(p, "approve_transaction", loc[p].id, loc[p].who)
    /\ UNCHANGED <<config, blockchain, delegations, permissions, voting_strategy, now, propVars, transactions, acknowledged, procs>>

\* execute_transaction: save the copy, return Ok(()) or Err(e)
execute_transaction_save(p) ==
    /\ pc[p] = "execute_transaction_save"
    /\ save_transaction(loc[p].id, loc[p].transaction)
    /\ Return(p, loc[p].op, loc[p].id, loc[p].who, loc[p].result)
    /\ acknowledged' =
         IF loc[p].op = "approve_transaction" /\ loc[p].result = "Ok"
         THEN [acknowledged EXCEPT ![loc[p].id] = @ \cup {loc[p].who}]
         ELSE acknowledged
    /\ UNCHANGED <<config, blockchain, delegations, permissions, voting_strategy, now, propVars, token_balances, transfers, procs>>

\* reject_check as it would be without the signer check
reject_check_no_signer(transaction, rejector) ==
    IF transaction.status # "Pending" THEN "InvalidParameter"
    ELSE "Ok"

\* reject_check as it would be without the status check
reject_check_no_status(transaction, rejector) ==
    IF rejector \notin get_signers THEN "Unauthorized"
    ELSE "Ok"

\* reject_transaction: the checks between the load and the save
reject_check(transaction, rejector) ==
    IF transaction.status # "Pending" THEN "InvalidParameter"
    ELSE IF rejector \notin get_signers THEN "Unauthorized"
    ELSE "Ok"

\* reject_transaction: load, status check, signer check
reject_transaction(p) ==
    /\ Idle(p)
    /\ \E id \in TxIds, rejector \in Approvers :
         IF ~transaction_exists(id)
         THEN Return(p, "reject_transaction", id, rejector, "DatabaseError")
         ELSE IF reject_check(transactions[id], rejector) # "Ok"
         THEN Return(p, "reject_transaction", id, rejector,
                     reject_check(transactions[id], rejector))
         ELSE Goto(p, "reject_transaction_save",
                   [op |-> "reject_transaction", id |-> id, who |-> rejector,
                    transaction |-> [transactions[id] EXCEPT !.status = "Rejected"]])
    /\ UNCHANGED <<config, blockchain, delegations, permissions, voting_strategy, now, propVars, treasVars, procs>>

\* reject_transaction: self.save_transaction(&transaction).await?; Ok(())
reject_transaction_save(p) ==
    /\ pc[p] = "reject_transaction_save"
    /\ save_transaction(loc[p].id, loc[p].transaction)
    /\ Return(p, "reject_transaction", loc[p].id, loc[p].who, "Ok")
    /\ UNCHANGED <<config, blockchain, delegations, permissions, voting_strategy, now, propVars, token_balances, transfers, acknowledged, procs>>

----------------------------------------------------------------------------
(* Governance *)

(* u64 and f64: a u64 is held in NLimbs limbs of LimbBits bits, the least
   significant first, because the balances that matter here are beyond the
   range of the model's own integers; an f64 is held as [m, e], the number
   m * 2^e with m of at most MantissaBits bits *)
LimbBits == 27
NLimbs == 4
MantissaBits == 53
Limb == 2^LimbBits

\* a number of the model (below 2^31) as a u64, and back (below 2^31)
U64(n) == <<n % Limb, n \div Limb, 0, 0>>
Num(a) == a[1] + Limb * a[2]

\* 2^n as a u64
Pow2(n) ==
    [i \in 1..NLimbs |-> IF i = (n \div LimbBits) + 1 THEN 2^(n % LimbBits) ELSE 0]

LimbOf(a, i) == IF i \in 1..NLimbs THEN a[i] ELSE 0

\* bit j of a
Bit(a, j) == (LimbOf(a, (j \div LimbBits) + 1) \div 2^(j % LimbBits)) % 2

\* limb i of a * 2^(LimbBits * q + r), rounded down
ShiftedLimb(a, i, q, r) ==
    (LimbOf(a, i - q) % 2^(LimbBits - r)) * 2^r
      + (LimbOf(a, i - q - 1) \div 2^(LimbBits - r))

\* a * 2^t, rounded down (t may be negative)
Shift(a, t) ==
    LET q == t \div LimbBits
        r == t % LimbBits
    IN <<ShiftedLimb(a, 1, q, r), ShiftedLimb(a, 2, q, r),
         ShiftedLimb(a, 3, q, r), ShiftedLimb(a, 4, q, r)>>

RECURSIVE BitLenFrom(_, _)
BitLenFrom(a, i) ==
    IF i = 0 THEN 0
    ELSE IF a[i] # 0
    THEN LimbBits * (i - 1) + CHOOSE j \in 1..LimbBits : 2^(j - 1) <= a[i] /\ a[i] < 2^j
    ELSE BitLenFrom(a, i - 1)

\* the number of bits of a: 0 for zero
BitLen(a) == BitLenFrom(a, NLimbs)

\* the limbs of a sum, difference or product, from the limbs w before the
\* carries are taken out of them
Carried(w) ==
    LET c1 == w[1] \div Limb
        c2 == (w[2] + c1) \div Limb
        c3 == (w[3] + c2) \div Limb
    IN <<w[1] % Limb, (w[2] + c1) % Limb, (w[3] + c2) % Limb, (w[4] + c3) % Limb>>

Add(a, b) == Carried([i \in 1..NLimbs |-> a[i] + b[i]])

\* a - b, for b <= a
Sub(a, b) == Carried([i \in 1..NLimbs |-> a[i] - b[i]])

\* a * c + d, for c and d below 16
MulAdd(a, c, d) ==
    Carried([i \in 1..NLimbs |-> a[i] * c + (IF i = 1 THEN d ELSE 0)])

Less(a, b) ==
    \E i \in 1..NLimbs : a[i] < b[i] /\ \A j \in (i + 1)..NLimbs : a[j] = b[j]

\* x as f64: the nearest f64, ties to the even mantissa
as_f64(x) ==
    LET sh == BitLen(x) - MantissaBits
        q == Shift(x, -sh)
        up == /\ Bit(x, sh - 1) = 1
              /\ \/ Bit(q, 0) = 1
                 \/ \E j \in 0..(sh - 2) : Bit(x, j) = 1
    IN IF sh <= 0 THEN [m |-> x, e |-> 0]
       ELSE [m |-> IF up THEN MulAdd(q, 1, 1) ELSE q, e |-> sh]

\* one step of the digit-by-digit square root, for bits 2p+1 and 2p of n:
\* s.root is the root of the bits above them and s.rem what is left of them
sqrt_step(n, p, s) ==
    LET r == MulAdd(s.rem, 4, 2 * Bit(n, 2 * p + 1) + Bit(n, 2 * p))
        trial == MulAdd(s.root, 4, 1)
    IN IF Less(r, trial)
       THEN [root |-> MulAdd(s.root, 2, 0), rem |-> r]
       ELSE [root |-> MulAdd(s.root, 2, 1), rem |-> Sub(r, trial)]

RECURSIVE isqrt(_, _, _, _)
\* the steps for the bit pairs hi down to lo of n, from s: the upper half of
\* the pairs, then the lower half from its result
isqrt(n, hi, lo, s) ==
    IF hi = lo THEN sqrt_step(n, hi, s)
    ELSE LET mid == (hi + lo) \div 2
         IN CHOOSE t \in {isqrt(n, mid, lo, u) : u \in {isqrt(n, hi, mid + 1, s)}} :
              TRUE

\* f64::sqrt of an f64 that holds a whole number: the nearest f64 to the
\* square root.  With 2^k <= sqrt(y) < 2^(k+1), the mantissa is the square
\* root of y * 2^(2 * (MantissaBits - 1 - k)) rounded to the nearest whole
\* number (up exactly when the remainder exceeds the root)
f64_sqrt(f) ==
    LET y == Shift(f.m, f.e)
        k == (BitLen(y) - 1) \div 2
        n == Shift(y, 2 * (MantissaBits - 1 - k))
        s == isqrt(n, MantissaBits - 1, 0, [root |-> U64(0), rem |-> U64(0)])
    IN IF BitLen(n) = 0 THEN [m |-> U64(0), e |-> 0]
       ELSE [m |-> IF Less(s.root, s.rem) THEN MulAdd(s.root, 1, 1) ELSE s.root,
             e |-> k - (MantissaBits - 1)]

\* f as u64, for f >= 0: the fraction is dropped, and 2^64 or more becomes
\* u64::MAX
as_u64(f) ==
    IF BitLen(f.m) + f.e > 64 THEN Sub(Pow2(64), U64(1)) ELSE Shift(f.m, f.e)

\* QuadraticVoting::sqrt: (x as f64).sqrt() as u64
sqrt(x) == as_u64(f64_sqrt(as_f64(x)))

\* ConvictionVoting::new: max_conviction
max_conviction == 10

\* ConvictionVoting::new: conviction_per_block
conviction_per_block == 1

\* ConvictionVoting::new and ConvictionVoting::with_params
ConvictionVoting_new ==
    [max_conviction |-> max_conviction, conviction_per_block |-> conviction_per_block]
with_params(max, per_block) ==
    [max_conviction |-> max, conviction_per_block |-> per_block]

\* the outcomes of calculate_weight: Ok(VoteWeight) with VoteWeight.value, or
\* the panic of an arithmetic overflow
Weighed(value) == [res |-> "Ok", value |-> value]
Panicked == [res |-> "panic", value |-> U64(0)]

\* ConvictionVoting::calculate_weight: balance * conviction in u64.  A
\* product of 2^64 or more panics in a build with overflow checks and wraps
\* in one without
ConvictionVoting_calculate_weight(self, balance) ==
    LET conviction == IF 5 < self.max_conviction THEN 5 ELSE self.max_conviction
        weight == MulAdd(balance, conviction, 0)
    IN IF BitLen(weight) > 64
       THEN {Panicked, Weighed(Sub(weight, Shift(Shift(weight, -64), 64)))}
       ELSE {Weighed(weight)}

\* QuadraticVoting::calculate_weight
QuadraticVoting_calculate_weight(balance) == {Weighed(sqrt(balance))}

\* TokenWeightedVoting::calculate_weight
TokenWeightedVoting_calculate_weight(balance) == {Weighed(balance)}

\* VotingStrategy::calculate_weight of the engine's strategies, which
\* GovernanceEngine::new makes with new()
calculate_weight(strategy, balance) ==
    CASE strategy = "TokenWeightedVoting" -> TokenWeightedVoting_calculate_weight(balance)
      [] strategy = "QuadraticVoting" -> QuadraticVoting_calculate_weight(balance)
      [] strategy = "ConvictionVoting" ->
           ConvictionVoting_calculate_weight(ConvictionVoting_new, balance)

\* the balances that calculate_weight is applied to: those of the tests,
\* some around them, and large ones up to u64::MAX
WideBalances ==
    {U64(0), U64(1), U64(2), U64(99), U64(100), U64(101), U64(10000),
     Add(Pow2(52), Pow2(27)), Add(Pow2(53), U64(1)), Sub(Pow2(54), U64(1)),
     Pow2(62), Sub(Pow2(64), U64(1))}

\* the parameters that ConvictionVoting is made with
ConvictionParams ==
    {with_params(max, per_block) : max \in {0, 3, 5, 10}, per_block \in {1, 2}}

\* a caller applies calculate_weight of a strategy to a balance, as
\* test_token_weighted_voting, test_quadratic_voting and
\* test_conviction_voting do
calculate(p) ==
    /\ Idle(p)
    /\ \E strategy \in VotingStrategies, balance \in WideBalances :
       \E self \in IF strategy = "ConvictionVoting" THEN ConvictionParams
                   ELSE {ConvictionVoting_new} :
       \E weight \in CASE strategy = "TokenWeightedVoting" ->
                            TokenWeightedVoting_calculate_weight(balance)
                       [] strategy = "QuadraticVoting" ->
                            QuadraticVoting_calculate_weight(balance)
                       [] strategy = "ConvictionVoting" ->
                            ConvictionVoting_calculate_weight(self, balance) :
         /\ racers' = racers \ {p}
         /\ pc' = [pc EXCEPT ![p] = "idle"]
         /\ loc' = [loc EXCEPT ![p] = NoLocals]
         /\ ret' = [op |-> "calculate_weight", id |-> "", who |-> "",
                    res |-> weight.res, strategy |-> strategy, self |-> self,
                    balance |-> balance, value |-> weight.value]
    /\ UNCHANGED <<config, blockchain, delegations, permissions, voting_strategy, now, propVars, treasVars, procs>>

\* GovernanceEngine::new as it would be if it compared the label without
\* regard to case
GovernanceEngine_new_any_case(label) ==
    CASE label \in {"Quadratic", "quadratic"} -> "QuadraticVoting"
      [] label \in {"Conviction", "conviction"} -> "ConvictionVoting"
      [] OTHER -> "TokenWeightedVoting"

\* GovernanceEngine::new: the voting strategy for the configuration label
GovernanceEngine_new(label) ==
    CASE label = "Quadratic" -> "QuadraticVoting"
      [] label = "Conviction" -> "ConvictionVoting"
      [] OTHER -> "TokenWeightedVoting"

\* GovernanceEngine::set_voting_strategy
set_voting_strategy(p) ==
    /\ Idle(p)
    /\ \E strategy \in VotingStrategies \ {voting_strategy} :
         voting_strategy' = strategy
    /\ Return(p, "set_voting_strategy", "", "", "Ok")
    /\ UNCHANGED <<config, blockchain, delegations, permissions, now, propVars, treasVars, procs>>

\* GovernanceEngine::get_voting_weight: the balance read, then the strategy
get_voting_weight(p) ==
    /\ Idle(p)
    /\ \E address \in DOMAIN blockchain :
       \E balance \in {{}} \cup {{b} : b \in blockchain[address]} :
         IF balance = {}
         THEN Return(p, "get_voting_weight", "", address, "BlockchainError")
         ELSE \E b \in balance :
              \E weight \in calculate_weight(voting_strategy, U64(b)) :
                /\ racers' = racers \ {p}
                /\ pc' = [pc EXCEPT ![p] = "idle"]
                /\ loc' = [loc EXCEPT ![p] = NoLocals]
                /\ ret' = [op |-> "get_voting_weight", id |-> "", who |-> address,
                           res |-> weight.res, balance |-> b,
                           value |-> weight.value]
    /\ UNCHANGED <<config, blockchain, delegations, permissions, voting_strategy, now, propVars, treasVars, procs>>

\* the balances a delegator's account may hold when it is read
DelegatorBalances == {0, 1, 2}

\* DELETE FROM delegations WHERE delegate = $2, whoever the delegator
RECURSIVE deleted_any_delegator(_, _, _)
deleted_any_delegator(table, delegator, delegate) ==
    IF table = << >> THEN << >>
    ELSE IF Head(table).delegate = delegate
         THEN deleted_any_delegator(Tail(table), delegator, delegate)
         ELSE <<Head(table)>> \o deleted_any_delegator(Tail(table), delegator, delegate)

\* DELETE FROM delegations WHERE delegator = $1 AND delegate = $2
RECURSIVE deleted(_, _, _)
deleted(table, delegator, delegate) ==
    IF table = << >> THEN << >>
    ELSE IF Head(table).delegator = delegator /\ Head(table).delegate = delegate
         THEN deleted(Tail(table), delegator, delegate)
         ELSE <<Head(table)>> \o deleted(Tail(table), delegator, delegate)

\* SELECT SUM(amount) as total FROM delegations WHERE delegate = $1: the one
\* row of the aggregate, its total NULL ({}) when no row matches
RECURSIVE SumAmount(_, _)
SumAmount(table, delegate) ==
    IF table = << >> THEN {}
    ELSE LET rest == SumAmount(Tail(table), delegate)
         IN IF Head(table).delegate # delegate THEN rest
            ELSE IF rest = {} THEN {Head(table).amount}
            ELSE {Head(table).amount + total : total \in rest}

\* GovernanceEngine::delegate_voting_power: the balance read, the zero check,
\* then the INSERT of the balance read
delegate_voting_power(p) ==
    /\ Idle(p)
    /\ \E delegator \in DOMAIN blockchain, delegate \in Addr :
       \E delegator_balance \in {{}} \cup {{b} : b \in blockchain[delegator]} :
         LET result(res, b) == [op |-> "delegate_voting_power", id |-> "", who |-> delegator,
                                res |-> res, delegate |-> delegate, balance |-> b]
         IN IF delegator_balance = {}
            THEN /\ ret' = result("BlockchainError", 0)
                 /\ UNCHANGED delegations
            ELSE \E b \in delegator_balance :
                 IF b = 0
                 THEN /\ ret' = result("Unauthorized", b)
                      /\ UNCHANGED delegations
                 ELSE /\ Len(delegations) < MaxDelegations
                      /\ delegations' = Append(delegations,
                             [delegator |-> delegator, delegate |-> delegate, amount |-> b])
                      /\ ret' = result("Ok", b)
    /\ racers' = racers \ {p}
    /\ pc' = [pc EXCEPT ![p] = "idle"]
    /\ loc' = [loc EXCEPT ![p] = NoLocals]
    /\ UNCHANGED <<config, blockchain, permissions, voting_strategy, now, propVars, treasVars, procs>>

\* GovernanceEngine::revoke_delegation: the DELETE, Ok whatever it deleted
revoke_delegation(p) ==
    /\ Idle(p)
    /\ \E delegator \in Addr, delegate \in Addr :
         /\ delegations' = deleted(delegations, delegator, delegate)
         /\ ret' = [op |-> "revoke_delegation", id |-> "", who |-> delegator,
                    res |-> "Ok", delegate |-> delegate]
    /\ racers' = racers \ {p}
    /\ pc' = [pc EXCEPT ![p] = "idle"]
    /\ loc' = [loc EXCEPT ![p] = NoLocals]
    /\ UNCHANGED <<config, blockchain, permissions, voting_strategy, now, propVars, treasVars, procs>>

\* GovernanceEngine::get_delegated_voting_power: the SUM, 0 for no row or NULL
get_delegated_voting_power(p) ==
    /\ Idle(p)
    /\ \E delegate \in Addr :
         LET rows == <<[total |-> SumAmount(delegations, delegate)]>>
             total == IF rows = << >> THEN 0
                      ELSE IF rows[1].total = {} THEN 0
                      ELSE CHOOSE t \in rows[1].total : TRUE
         IN ret' = [op |-> "get_delegated_voting_power", id |-> "", who |-> delegate,
                    res |-> "Ok", value |-> total]
    /\ racers' = racers \ {p}
    /\ pc' = [pc EXCEPT ![p] = "idle"]
    /\ loc' = [loc EXCEPT ![p] = NoLocals]
    /\ UNCHANGED <<config, blockchain, delegations, permissions, voting_strategy, now, propVars, treasVars, procs>>

\* GovernanceEngine::process: self.proposal_manager.process_proposals().await?
process(p) == process_proposals(p)

----------------------------------------------------------------------------
(* Permissions *)

\* has_permission as it would be if Admin were looked up in the table like
\* the other roles
has_permission_by_table(table, role, resource, permission) ==
    IF role \in DOMAIN table /\ resource \in DOMAIN table[role]
    THEN permission \in table[role][resource]
    ELSE FALSE

\* PermissionManager::has_permission on the map table
has_permission(table, role, resource, permission) ==
    IF role = "Admin" THEN TRUE
    ELSE IF role \in DOMAIN table /\ resource \in DOMAIN table[role]
    THEN permission \in table[role][resource]
    ELSE FALSE

\* PermissionManager::grant_permission on the map table: entry(role)
\* .or_insert_with(HashMap::new), entry(resource).or_insert_with(HashSet::new),
\* insert(permission)
granted(table, role, resource, permission) ==
    LET resources == IF role \in DOMAIN table THEN table[role] ELSE << >>
        held == IF resource \in DOMAIN resources THEN resources[resource] ELSE {}
    IN Upsert(table, role, Upsert(resources, resource, held \cup {permission}))

\* revoke_permission as it would be if it emptied the resource's set
revoked_all(table, role, resource, permission) ==
    IF role \in DOMAIN table /\ resource \in DOMAIN table[role]
    THEN [table EXCEPT ![role][resource] = {}]
    ELSE table

\* PermissionManager::revoke_permission on the map table: the permission is
\* removed if the role and the resource have an entry
revoked(table, role, resource, permission) ==
    IF role \in DOMAIN table /\ resource \in DOMAIN table[role]
    THEN [table EXCEPT ![role][resource] = @ \ {permission}]
    ELSE table

RECURSIVE grant_all_permissions(_, _, _, _)
\* PermissionManager::grant_all_permissions: grant_permission for each
\* permission of the slice
grant_all_permissions(table, role, resource, slice) ==
    IF slice = << >> THEN table
    ELSE grant_all_permissions(granted(table, role, resource, Head(slice)),
                               role, resource, Tail(slice))

RECURSIVE grant_each(_, _, _)
\* init_default_permissions: for (resource, permissions) in list
\* { grant_all_permissions(role, resource, permissions) }
\* (the table a resource's grants leave is computed before the next
\* resource is taken up)
grant_each(table, role, list) ==
    IF list = << >> THEN table
    ELSE CHOOSE after \in
           { grant_each(t, role, Tail(list)) :
               t \in {grant_all_permissions(table, role, Head(list)[1], Head(list)[2])} } :
           TRUE

\* init_default_permissions: member_permissions
member_permissions ==
    << <<"proposal", <<"create", "read">> >>,
       <<"vote", <<"create", "read">> >>,
       <<"token", <<"read">> >>,
       <<"treasury", <<"read">> >>,
       <<"member", <<"read">> >>,
       <<"settings", <<"read">> >> >>

\* init_default_permissions: delegate_permissions
delegate_permissions ==
    << <<"proposal", <<"create", "read", "update">> >>,
       <<"vote", <<"create", "read">> >>,
       <<"token", <<"read">> >>,
       <<"treasury", <<"read">> >>,
       <<"member", <<"read">> >>,
       <<"settings", <<"read">> >> >>

\* council_permissions as it would be without the update of settings
council_permissions_short ==
    << <<"proposal", <<"create", "read", "update", "delete">> >>,
       <<"vote", <<"create", "read">> >>,
       <<"token", <<"read", "create">> >>,
       <<"treasury", <<"read", "create">> >>,
       <<"member", <<"read", "update">> >>,
       <<"settings", <<"read">> >> >>

\* init_default_permissions: council_permissions
council_permissions ==
    << <<"proposal", <<"create", "read", "update", "delete">> >>,
       <<"vote", <<"create", "read">> >>,
       <<"token", <<"read", "create">> >>,
       <<"treasury", <<"read", "create">> >>,
       <<"member", <<"read", "update">> >>,
       <<"settings", <<"read", "update">> >> >>

\* init_default_permissions: crud_permissions on each of resources, for Admin
admin_permissions ==
    << <<"proposal", <<"create", "read", "update", "delete">> >>,
       <<"vote", <<"create", "read", "update", "delete">> >>,
       <<"token", <<"create", "read", "update", "delete">> >>,
       <<"treasury", <<"create", "read", "update", "delete">> >>,
       <<"member", <<"create", "read", "update", "delete">> >>,
       <<"settings", <<"create", "read", "update", "delete">> >> >>

\* PermissionManager::new: init_default_permissions on the empty map
init_default_permissions ==
    grant_each(
      grant_each(
        grant_each(
          grant_each(<< >>, "Member", member_permissions),
          "Delegate", delegate_permissions),
        "Council", council_permissions),
      "Admin", admin_permissions)

\* a caller asks has_permission(role, resource, permission)
ask_permission(p) ==
    /\ Idle(p)
    /\ \E role \in MemberRole, resource \in Resources, permission \in Permissions :
         /\ racers' = racers \ {p}
         /\ pc' = [pc EXCEPT ![p] = "idle"]
         /\ loc' = [loc EXCEPT ![p] = NoLocals]
         /\ ret' = [op |-> "has_permission", id |-> "", who |-> "", res |-> "Ok",
                    role |-> role, resource |-> resource, permission |-> permission,
                    value |-> has_permission(permissions, role, resource, permission)]
    /\ UNCHANGED <<config, blockchain, delegations, permissions, voting_strategy, now, propVars, treasVars, procs>>

\* PermissionManager::grant_permission
grant_permission(p) ==
    /\ Idle(p)
    /\ \E role \in GrantedRoles, resource \in GrantedResources,
          permission \in GrantedPermissions :
         /\ permissions' = granted(permissions, role, resource, permission)
         /\ racers' = racers \ {p}
         /\ pc' = [pc EXCEPT ![p] = "idle"]
         /\ loc' = [loc EXCEPT ![p] = NoLocals]
         /\ ret' = [op |-> "grant_permission", id |-> "", who |-> "", res |-> "Ok",
                    role |-> role, resource |-> resource, permission |-> permission]
    /\ UNCHANGED <<config, blockchain, delegations, voting_strategy, now, propVars, treasVars, procs>>

\* PermissionManager::revoke_permission
revoke_permission(p) ==
    /\ Idle(p)
    /\ \E role \in GrantedRoles, resource \in GrantedResources,
          permission \in GrantedPermissions :
         /\ permissions' = revoked(permissions, role, resource, permission)
         /\ racers' = racers \ {p}
         /\ pc' = [pc EXCEPT ![p] = "idle"]
         /\ loc' = [loc EXCEPT ![p] = NoLocals]
         /\ ret' = [op |-> "revoke_permission", id |-> "", who |-> "", res |-> "Ok",
                    role |-> role, resource |-> resource, permission |-> permission]
    /\ UNCHANGED <<config, blockchain, delegations, voting_strategy, now, propVars, treasVars, procs>>

----------------------------------------------------------------------------
\* the clock advances
Tick ==
    /\ now < MaxTime
    /\ now' = now + 1
    /\ ret' = NoResult
    /\ UNCHANGED <<config, blockchain, delegations, permissions, voting_strategy, propVars, treasVars, procs, racers, pc, loc>>

----------------------------------------------------------------------------
(* Specifications *)

\* the tables after construction: empty
InitTables ==
    /\ now = 0
    /\ permissions = init_default_permissions
    /\ delegations = << >>
    /\ proposals = << >>
    /\ dispatched = [id \in Ids |-> 0]
    /\ transactions = << >>
    /\ token_balances = [a \in {"0xTreasury"} |-> InitialTreasury]
    /\ transfers = [id \in TxIds |-> << >>]
    /\ acknowledged = [id \in TxIds |-> {}]
    /\ pc = [p \in Procs |-> "idle"]
    /\ loc = [p \in Procs |-> NoLocals]
    /\ ret = NoResult

\* the state after construction with the governance token as the label
InitStore ==
    /\ InitTables
    /\ voting_strategy = GovernanceEngine_new(governance_token)

\* ... and an adapter that may answer any balance for any address
InitCommon ==
    /\ InitStore
    /\ blockchain = [a \in Addr |-> Balances]

\* one caller task: the handlers run one at a time
InitSeq ==
    /\ InitCommon
    /\ config \in [quorum_percentage : QuorumPcts, majority_percentage : MajorityPcts,
                  proposal_threshold : Thresholds]
    /\ procs = {"p1"}
    /\ racers = {}

\* a second caller task, whose call interleaves with the first task's calls
\* at the awaits
InitConc ==
    /\ InitCommon
    /\ config \in [quorum_percentage : QuorumPcts, majority_percentage : MajorityPcts,
                  proposal_threshold : Thresholds]
    /\ procs = {"p1"}
    /\ racers = {"p2"}

NextP ==
    \/ Tick
    \/ \E p \in Procs :
         \/ submit_proposal(p)
         \/ start_voting(p)
         \/ start_voting_save(p)
         \/ vote(p)
         \/ vote_save(p)
         \/ process_proposals(p)
         \/ finalize_vote(p)
         \/ execute_proposal(p)
         \/ execute_proposal_save(p)
         \/ cancel_proposal(p)
         \/ cancel_proposal_save(p)

NextT ==
    \E p \in Procs :
      \/ create_transaction(p)
      \/ approve_transaction(p)
      \/ approve_transaction_save(p)
      \/ approve_transaction_execute(p)
      \/ execute_transaction(p)
      \/ execute_transaction_save(p)
      \/ reject_transaction(p)
      \/ reject_transaction_save(p)

\* a proposal as start_voting stored it at time 0
Cast0 ==
    [build("TextProposal", "a1") EXCEPT
       !.state = "Voting",
       !.voting_starts_at = {0},
       !.voting_ends_at = {voting_period_days}]

\* ... after one vote call succeeded
Cast1 ==
    {record_vote(Cast0, voter, choice, power) :
       voter \in Addr, choice \in ProposalVote, power \in TallyPowers}

\* ... after a vote call of each of the two voters succeeded
Cast2 ==
    UNION {{record_vote(q, voter, choice, power) :
              voter \in {a \in Addr : ~has_voted(q, a)},
              choice \in ProposalVote, power \in TallyPowers} : q \in Cast1}

\* the voting period of a proposal has ended with any of these votes cast;
\* a periodic process_proposals run is about to start
InitTally ==
    /\ now = voting_period_days + 1
    /\ blockchain = [a \in Addr |-> Balances]
    /\ permissions = init_default_permissions
    /\ voting_strategy = "TokenWeightedVoting"
    /\ delegations = << >>
    /\ proposals \in {[id \in Ids |-> q] : q \in {Cast0} \cup Cast1 \cup Cast2}
    /\ dispatched = [id \in Ids |-> 0]
    /\ transactions = << >>
    /\ token_balances = [a \in {"0xTreasury"} |-> InitialTreasury]
    /\ transfers = [id \in TxIds |-> << >>]
    /\ acknowledged = [id \in TxIds |-> {}]
    /\ pc = [p \in Procs |-> "idle"]
    /\ loc = [p \in Procs |-> NoLocals]
    /\ ret = NoResult
    /\ config \in [quorum_percentage : QuorumPcts, majority_percentage : MajorityPcts,
                  proposal_threshold : Thresholds]
    /\ procs = {"p1"}
    /\ racers = {}

NextTally ==
    \E p \in Procs :
      \/ process_proposals(p)
      \/ finalize_vote(p)

\* voting with the governance engine's strategy
NextW ==
    \E p \in Procs :
      \/ submit_proposal(p)
      \/ start_voting(p)
      \/ start_voting_save(p)
      \/ vote(p)
      \/ vote_save(p)
      \/ set_voting_strategy(p)
      \/ get_voting_weight(p)

\* the task that runs the periodic sweep
Sweeper == "p2"

\* callers submit, open, vote on and cancel proposals while the periodic
\* sweep runs as a task of its own
InitLive ==
    /\ InitCommon
    /\ config \in [quorum_percentage : QuorumPcts, majority_percentage : MajorityPcts,
                  proposal_threshold : Thresholds]
    /\ procs = Procs
    /\ racers = {}

NextLive ==
    \/ Tick
    \/ \E p \in Procs \ {Sweeper} :
         \/ submit_proposal(p)
         \/ start_voting(p)
         \/ start_voting_save(p)
         \/ vote(p)
         \/ vote_save(p)
         \/ cancel_proposal(p)
         \/ cancel_proposal_save(p)
    \/ process(Sweeper)
    \/ finalize_vote(Sweeper)

\* time advances, the sweep is invoked again and again, and a sweep that
\* has started goes on to its saves (no persistence failure)
FairLive ==
    /\ WF_vars(Tick)
    /\ WF_vars(process(Sweeper))
    /\ WF_vars(finalize_vote(Sweeper))

\* the balances of the end-to-end scenario: the proposer and three voters
ScenarioBalances ==
    [a \in {"a1", "v1", "v2", "v3"} |->
       CASE a = "a1" -> {1000}
         [] a = "v1" -> {600}
         [] a = "v2" -> {300}
         [] a = "v3" -> {0}]

\* proposal threshold 500, quorum 20%, majority 50%, token-weighted voting,
\* one caller
InitE2E ==
    /\ InitStore
    /\ blockchain = ScenarioBalances
    /\ config = [quorum_percentage |-> 20, majority_percentage |-> 50,
                 proposal_threshold |-> 500]
    /\ procs = {"p1"}
    /\ racers = {}

NextE2E ==
    \/ Tick
    \/ \E p \in Procs :
         \/ submit_proposal(p)
         \/ start_voting(p)
         \/ start_voting_save(p)
         \/ vote(p)
         \/ vote_save(p)
         \/ process_proposals(p)
         \/ finalize_vote(p)
         \/ execute_proposal(p)
         \/ execute_proposal_save(p)

\* a freshly constructed permission manager, one caller
InitPerm ==
    /\ InitSeq
    /\ config.quorum_percentage <= 100

\* the permission manager: grants, revocations and queries
NextPerm ==
    \E p \in Procs :
      \/ grant_permission(p)
      \/ revoke_permission(p)
      \/ ask_permission(p)

\* the governance engine constructed for any of the labels
InitG ==
    /\ InitTables
    /\ blockchain = [a \in Addr |-> EngineBalances]
    /\ config \in [quorum_percentage : {20}, majority_percentage : {50},
                  proposal_threshold : Thresholds, governance_token : Labels]
    /\ voting_strategy = GovernanceEngine_new(config.governance_token)
    /\ procs = {"p1"}
    /\ racers = {}

\* the engine's weights and the strategies' weights
NextG ==
    \E p \in Procs :
      \/ get_voting_weight(p)
      \/ calculate(p)

\* the governance engine over accounts whose balances change between reads
InitD ==
    /\ InitTables
    /\ blockchain = [a \in Addr |-> DelegatorBalances]
    /\ config = [quorum_percentage |-> 20, majority_percentage |-> 50,
                 proposal_threshold |-> 1, governance_token |-> governance_token]
    /\ voting_strategy = GovernanceEngine_new(config.governance_token)
    /\ procs = {"p1"}
    /\ racers = {}

\* delegations made, revoked and summed, one call after the other
NextD ==
    \E p \in Procs :
      \/ delegate_voting_power(p)
      \/ revoke_delegation(p)
      \/ get_delegated_voting_power(p)

SpecD == InitD /\ [][NextD]_vars

\* the permission manager with grants and revocations only
NextGrant ==
    \E p \in Procs :
      \/ grant_permission(p)
      \/ revoke_permission(p)

\* proposals, handlers one at a time
SpecP == InitSeq /\ [][NextP]_vars
\* proposals, handlers interleaved
SpecPC == InitConc /\ [][NextP]_vars
\* treasury, handlers one at a time
SpecT == InitSeq /\ [][NextT]_vars
\* treasury, handlers interleaved
SpecTC == InitConc /\ [][NextT]_vars
\* submission and voting, with the governance engine, handlers one at a time
SpecW == InitSeq /\ [][NextW]_vars
\* finalization runs over proposals whose voting has ended
SpecTally == InitTally /\ [][NextTally]_vars
\* the permission manager, one caller
SpecPerm == InitPerm /\ [][NextPerm]_vars
\* the end-to-end scenario, handlers one at a time
SpecE2E == InitE2E /\ [][NextE2E]_vars
\* the periodic sweep beside the callers, with fairness
SpecLive == InitLive /\ [][NextLive]_vars /\ FairLive

\* voting weights
SpecG == InitG /\ [][NextG]_vars

\* grants and revocations of permissions
SpecGrant == InitPerm /\ [][NextGrant]_vars

----------------------------------------------------------------------------
(* Properties *)

RECURSIVE SumPower(_, _)
\* the sum of voting_power over the votes of one choice
SumPower(votes, choice) ==
    IF votes = << >> THEN 0
    ELSE (IF Head(votes).vote = choice THEN Head(votes).voting_power ELSE 0)
         + SumPower(Tail(votes), choice)

RECURSIVE TotalPower(_)
\* the sum of voting_power over all the votes
TotalPower(votes) ==
    IF votes = << >> THEN 0
    ELSE Head(votes).voting_power + TotalPower(Tail(votes))

\* the members of a sequence
Range(seq) == {seq[i] : i \in 1..Len(seq)}

\* no element occurs twice in the sequence
Distinct(seq) == \A i, j \in 1..Len(seq) : i # j => seq[i] # seq[j]

\* C1: the votes list of every stored proposal holds at most one Vote per
\* voter address, after any sequence of handler calls.
C1_OneVotePerVoter ==
    \A id \in DOMAIN proposals :
      \A i, j \in 1..Len(proposals[id].votes) :
        i # j => proposals[id].votes[i].voter # proposals[id].votes[j].voter

\* C1 witness: a second call of a voter was turned away from a proposal that
\* holds the votes of both voters.
C1_Witness ==
    /\ ret.op = "vote" /\ ret.res = "InvalidParameter"
    /\ \E id \in DOMAIN proposals :
         /\ id = ret.id
         /\ proposals[id].state = "Voting"
         /\ Len(proposals[id].votes) = 2
         /\ has_voted(proposals[id], ret.who)
         /\ ~voting_ended(proposals[id])

\* C2: for every stored proposal each tally equals the sum of voting_power
\* over the recorded votes with that choice, so the three tallies add up to
\* the sum of the weights of all recorded votes.
C2_TalliesAreSums ==
    \A id \in DOMAIN proposals :
      LET proposal == proposals[id] IN
      /\ proposal.yes_votes = SumPower(proposal.votes, "Yes")
      /\ proposal.no_votes = SumPower(proposal.votes, "No")
      /\ proposal.abstain_votes = SumPower(proposal.votes, "Abstain")
      /\ proposal.yes_votes + proposal.no_votes + proposal.abstain_votes
           = TotalPower(proposal.votes)

\* C2 witness: a proposal holding votes of two different choices, each with
\* its weight in its own tally.
C2_Witness ==
    \E id \in DOMAIN proposals :
      /\ Len(proposals[id].votes) = 2
      /\ proposals[id].yes_votes > 0
      /\ proposals[id].abstain_votes > 0
      /\ proposals[id].no_votes = 0

\* C3: a transaction is Executed only if its approvers list holds at least
\* required_approvals distinct addresses, all of them authorized signers
\* (the signer set is fixed by the configuration).
C3_ExecutedHasApprovals ==
    \A id \in DOMAIN transactions :
      LET transaction == transactions[id] IN
      transaction.status = "Executed" =>
        /\ Distinct(transaction.approvers)
        /\ Cardinality(Range(transaction.approvers)) >= transaction.required_approvals
        /\ Range(transaction.approvers) \subseteq get_signers

\* C3 witness: an Executed transaction that needed two approvals.
C3_Witness ==
    \E id \in DOMAIN transactions :
      /\ transactions[id].status = "Executed"
      /\ transactions[id].required_approvals = 2
      /\ Len(transactions[id].approvers) = 2

\* a step in which execute_transaction, called on a stored transaction that
\* is not Approved, returns
ExecuteRefused(id) ==
    /\ ret'.op = "execute_transaction" /\ ret'.id = id
    /\ id \in DOMAIN transactions
    /\ transactions[id].status # "Approved"

TriggeredByApprove(id) ==
    {transfers[id][i].who :
       i \in {j \in 1..Len(transfers[id]) :
                transfers[id][j].op = "approve_transaction"}}

\* C5: when approve_transaction calls of distinct signers on one Pending
\* transaction interleave and each reaches the threshold, execution is
\* triggered once: the calls of two distinct signers never both make the
\* ledger transfer of the transaction.
C5_ApprovalRaceExecutesOnce ==
    \A id \in TxIds : Cardinality(TriggeredByApprove(id)) <= 1

\* C6: of two interleaved vote calls of one voter on one proposal at most one
\* returns success: no vote call returns Ok when the stored proposal already
\* holds a vote of its voter, recorded by the other call's success.
C6_VoteRaceOneSuccess ==
    [][\A p \in Procs :
         (pc[p] = "vote_save" /\ ret'.op = "vote" /\ ret'.res = "Ok"
            /\ pc'[p] = "idle")
           => ~has_voted(proposals[loc[p].id], loc[p].who)]_vars

\* the changes of state the lifecycle allows, each with the await of the
\* handler that makes it
ProposalTransitions ==
    { <<"Draft", "Voting", "start_voting_save">>,
      <<"Voting", "Approved", "finalize_vote">>,
      <<"Voting", "Rejected", "finalize_vote">>,
      <<"Approved", "Executed", "execute_proposal_save">>,
      <<"Draft", "Cancelled", "cancel_proposal_save">>,
      <<"Voting", "Cancelled", "cancel_proposal_save">> }

\* C7: with the handlers run one at a time, every change of a stored
\* proposal's state is Draft->Voting (start_voting), Voting->Approved or
\* Voting->Rejected (process_proposals), Approved->Executed
\* (execute_proposal), Draft->Cancelled or Voting->Cancelled
\* (cancel_proposal); Rejected, Executed and Cancelled are never left.
C7_ProposalTransitions ==
    [][\A id \in DOMAIN proposals :
         proposals'[id].state # proposals[id].state =>
           \E p \in procs :
             <<proposals[id].state, proposals'[id].state, pc[p]>>
               \in ProposalTransitions]_vars

\* C7 witness: a proposal that received a vote went all the way to Executed.
C7_Witness ==
    \E id \in DOMAIN proposals :
      /\ proposals[id].state = "Executed"
      /\ Len(proposals[id].votes) > 0
      /\ ret.op = "execute_proposal" /\ ret.res = "Ok"

\* C8: under any interleaving, a proposal stored as Cancelled, Approved,
\* Rejected or Executed is never afterwards stored as Voting or Draft.
C8_NoResurrection ==
    [][\A id \in DOMAIN proposals :
         proposals[id].state \in {"Cancelled", "Approved", "Rejected", "Executed"}
           => proposals'[id].state \notin {"Voting", "Draft"}]_vars

\* the changes of status the workflow allows
TransactionTransitions ==
    { <<"Pending", "Approved">>, <<"Pending", "Rejected">>,
      <<"Approved", "Executed">>, <<"Approved", "Failed">> }

\* C9: with the handlers run one at a time, every change of a stored
\* transaction's status is Pending->Approved, Pending->Rejected,
\* Approved->Executed or Approved->Failed; Executed, Rejected and Failed are
\* never left.
C9_TransactionTransitions ==
    [][\A id \in DOMAIN transactions :
         transactions'[id].status # transactions[id].status =>
           <<transactions[id].status, transactions'[id].status>>
             \in TransactionTransitions]_vars

\* C9 witness: approve_transaction returned the transfer's error, leaving the
\* transaction Failed.
C9_Witness ==
    /\ ret.op = "approve_transaction" /\ ret.res = "BlockchainError"
    /\ \E id \in DOMAIN transactions :
         /\ transactions[id].status = "Failed"
         /\ transactions[id].metadata = "BlockchainError"

\* the rule of the specification for a proposal whose voting has ended
FinalizationRule(yes, no, abstain) ==
    LET total == yes + no + abstain IN
    IF total < (config.quorum_percentage * total) \div 100 THEN "Rejected"
    ELSE IF yes >= (config.majority_percentage * (yes + no)) \div 100 THEN "Approved"
    ELSE "Rejected"

\* the ids of the stored proposals in Voting whose voting_ends_at has passed
EndedVoting ==
    {id \in DOMAIN proposals :
       proposals[id].state = "Voting" /\ voting_ended(proposals[id])}

\* C10: process_proposals sets the state of every proposal in Voting whose
\* voting_ends_at has passed by the rule (total = yes+no+abstain, integer
\* division): Rejected if total < quorum_pct*total/100, otherwise Approved if
\* yes >= majority_pct*(yes+no)/100, otherwise Rejected; the tallies and the
\* votes list stay as they were.  (First conjunct: the sweep takes up exactly
\* those proposals, and returns at once only when there is none; second
\* conjunct: each one it takes up is stored with the state of the rule and
\* nothing else changed.)
C10_FinalizationRule ==
    [][\A p \in Procs :
         /\ (pc[p] = "idle" /\ pc'[p] = "finalize_vote") =>
              /\ {loc'[p].queue[i].id : i \in 1..Len(loc'[p].queue)} = EndedVoting
              /\ Len(loc'[p].queue) = Cardinality(EndedVoting)
         /\ (pc[p] = "idle" /\ pc'[p] = "idle" /\ ret'.op = "process_proposals"
               /\ \A q \in Procs \ {p} : pc'[q] = pc[q])
              => EndedVoting = {}
         /\ (pc[p] = "finalize_vote" /\ loc'[p] # loc[p]) =>
              LET id == Head(loc[p].queue).id
                  old == proposals[id]
              IN /\ old.state = "Voting" /\ voting_ended(old)
                 /\ proposals' =
                      [proposals EXCEPT ![id] =
                         [old EXCEPT !.state = FinalizationRule(old.yes_votes,
                                         old.no_votes, old.abstain_votes)]]
      ]_vars

\* C10 witness: process_proposals has just rejected a proposal that has two
\* votes for want of a majority, quorum being met.
C10_Witness ==
    /\ ret.op = "process_proposals"
    /\ config.quorum_percentage <= 100
    /\ \E id \in DOMAIN proposals :
         /\ proposals[id].state = "Rejected"
         /\ proposals[id].no_votes = 2
         /\ proposals[id].yes_votes = 0

\* the token supplies the quorum is measured against
Supplies == {1000}

\* C11: a proposal whose total weighted votes cast are below the quorum
\* threshold (the quorum percentage of the total supply, as in: quorum 20%,
\* supply 1000, 100 votes cast, all yes) is finalized as Rejected, whatever
\* the yes/no split.
C11_BelowQuorumRejected ==
    [][\A p \in Procs :
         (pc[p] = "finalize_vote" /\ loc'[p] # loc[p]) =>
           LET id == Head(loc[p].queue).id
               old == proposals[id]
               total == old.yes_votes + old.no_votes + old.abstain_votes
           IN \A supply \in Supplies :
                (total <= supply /\ total * 100 < config.quorum_percentage * supply)
                  => proposals'[id].state = "Rejected"
      ]_vars

\* the proposal is in Voting, now lies within its voting period (both ends
\* included) and the voter has no recorded vote on it
MayVote(proposal, voter) ==
    /\ proposal.state = "Voting"
    /\ \E t \in proposal.voting_starts_at : t <= now
    /\ \E t \in proposal.voting_ends_at : now <= t
    /\ \A i \in 1..Len(proposal.votes) : proposal.votes[i].voter # voter

\* C12: a vote call gets past its checks, and so to its save and to Ok,
\* only if the proposal it loads is in Voting, now is within
\* [voting_starts_at, voting_ends_at], the voter has no recorded vote on it
\* and the weight is > 0; the InvalidParameter errors are returned only when
\* one of the first three fails and Unauthorized only when they hold (the
\* weight is 0); a call that returns an error leaves the stored proposals as
\* they were.
C12_VoteGuards ==
    [][
        /\ \A p \in Procs :
            (pc[p] = "idle" /\ pc'[p] = "vote_save") =>
               LET old == proposals[loc'[p].id]
                   new == loc'[p].proposal
               IN /\ MayVote(old, loc'[p].who)
                  /\ new.votes[Len(new.votes)].voter = loc'[p].who
                  /\ new.votes[Len(new.votes)].voting_power > 0
                  /\ proposals' = proposals
        /\ (ret'.op = "vote" /\ ret'.res # "Ok") => proposals' = proposals
        /\ (ret'.op = "vote" /\ ret'.res = "InvalidParameter") =>
               ~MayVote(proposals[ret'.id], ret'.who)
        /\ (ret'.op = "vote" /\ ret'.res \in {"Unauthorized", "BlockchainError"}) =>
               MayVote(proposals[ret'.id], ret'.who)
        /\ (ret'.op = "vote" /\ ret'.res = "Ok") =>
               \E p \in Procs :
                  /\ pc[p] = "vote_save" /\ pc'[p] = "idle"
                  /\ proposals'[ret'.id] = loc[p].proposal
      ]_vars

\* C12 witness: a vote cast at the last instant of the voting period was
\* accepted
C12_Witness ==
    /\ ret.op = "vote" /\ ret.res = "Ok"
    /\ now \in proposals[ret.id].voting_ends_at
    /\ \E i \in 1..Len(proposals[ret.id].votes) :
          proposals[ret.id].votes[i].voter = ret.who

\* C13: the weight that vote records in the Vote and adds to the tally is
\* the value get_voting_weight returns under the engine's active voting
\* strategy for the balance the voter has when the vote is cast.
C13_VoteWeightIsStrategyWeight ==
    [][\A p \in Procs :
         (pc[p] = "idle" /\ pc'[p] = "vote_save") =>
            LET old == proposals[loc'[p].id]
                new == loc'[p].proposal
                cast == new.votes[Len(new.votes)]
                weight == Num((CHOOSE w \in calculate_weight(voting_strategy,
                                        U64(loc'[p].voting_power)) : TRUE).value)
            IN /\ cast.voting_power = weight
               /\ (new.yes_votes + new.no_votes + new.abstain_votes)
                    - (old.yes_votes + old.no_votes + old.abstain_votes) = weight
      ]_vars

\* the step stores the proposal that an execute_proposal call had marked
SavesExecution(id) ==
    \E p \in Procs :
       /\ pc[p] = "execute_proposal_save" /\ pc'[p] = "idle"
       /\ loc[p].id = id

\* C14: a stored proposal becomes Executed only by the save of an
\* execute_proposal call, and such a call gets to its dispatch and save only
\* when the proposal it loaded is Approved; every stored proposal in
\* Executed has execution_date set; execute_proposal on a proposal in any
\* other state returns InvalidParameter and dispatches no transfer or
\* contract call.
C14_ExecutedOnlyFromApproved ==
    /\ [](\A id \in DOMAIN proposals :
            proposals[id].state = "Executed" => proposals[id].execution_date # {})
    /\ [][
          /\ \A id \in DOMAIN proposals' :
                (/\ proposals'[id].state = "Executed"
                 /\ (id \in DOMAIN proposals => proposals[id].state # "Executed"))
                  => SavesExecution(id)
          /\ \A p \in Procs :
                (pc[p] = "idle" /\ pc'[p] = "execute_proposal_save") =>
                   /\ proposals[loc'[p].id].state = "Approved"
                   /\ loc'[p].proposal.state = "Executed"
                   /\ loc'[p].proposal.execution_date = {now}
          /\ \A id \in Ids :
                dispatched'[id] # dispatched[id] =>
                   /\ id \in DOMAIN proposals
                   /\ proposals[id].state = "Approved"
          /\ (/\ ret'.op = "execute_proposal"
              /\ ~SavesExecution(ret'.id)
              /\ ret'.id \in DOMAIN proposals
              /\ proposals[ret'.id].state # "Approved")
               => /\ ret'.res = "InvalidParameter"
                  /\ dispatched' = dispatched
                  /\ proposals' = proposals
       ]_vars

\* C14 witness: an execute_proposal call has returned Ok after its dispatch
\* and the proposal is stored Executed with its execution date
C14_Witness ==
    /\ ret.op = "execute_proposal" /\ ret.res = "Ok"
    /\ proposals[ret.id].state = "Executed"
    /\ proposals[ret.id].execution_date # {}
    /\ dispatched[ret.id] = 1

\* C15: an execute_proposal call on an Approved
\* proposal that fails, with BlockchainError from the transfer or
\* contract-call dispatch or with NotSupported for a ParameterChange, leaves
\* the stored proposal unchanged and Approved, so that execute_proposal
\* passes its state check on it again; a ParameterChange proposal is never
\* marked Executed.
C15_FailedExecutionStaysApproved ==
    [][
        /\ (ret'.op = "execute_proposal"
              /\ ret'.res \in {"BlockchainError", "NotSupported"}) =>
              /\ proposals' = proposals
              /\ dispatched' = dispatched
              /\ proposals[ret'.id].state = "Approved"
              /\ executable(proposals'[ret'.id])
              /\ ret'.res = "NotSupported"
                   <=> proposals[ret'.id].proposal_type = "ParameterChange"
              /\ ret'.res = "BlockchainError"
                   <=> proposals[ret'.id].proposal_type \in {"Transfer", "ContractCall"}
        /\ \A p \in Procs :
              (pc[p] = "idle" /\ pc'[p] = "execute_proposal_save") =>
                 proposals[loc'[p].id].proposal_type # "ParameterChange"
      ]_vars

\* C15 witness: the dispatch of an Approved proposal has just failed and the
\* proposal is still stored Approved
C15_Witness ==
    /\ ret.op = "execute_proposal" /\ ret.res = "BlockchainError"
    /\ proposals[ret.id].state = "Approved"
    /\ proposals[ret.id].execution_date = {}

\* C16: once an approve_transaction call of a signer on a transaction has
\* returned Ok, a further approve_transaction call of that signer on that
\* transaction does not get past the checks: it returns an InvalidParameter
\* error (the "already approved" one while the transaction is Pending) and
\* the stored transaction, current_approvals with it, stays as it was.
C16_SecondApprovalRefused ==
    [][
        /\ \A p \in Procs :
              (pc[p] = "idle" /\ pc'[p] = "approve_transaction_save") =>
                 loc'[p].who \notin acknowledged[loc'[p].id]
        /\ (/\ ret'.op = "approve_transaction"
            /\ pc' = pc
            /\ ret'.who \in acknowledged[ret'.id])
             => /\ ret'.res = IF transactions[ret'.id].status = "Pending"
                              THEN AlreadyApproved ELSE NotPending
                /\ transactions' = transactions
      ]_vars

\* C17: in every reachable state, the approvers list of each stored
\* transaction has no address twice and current_approvals is the length of
\* that list.
C17_ApproversDistinctAndCounted ==
    \A id \in DOMAIN transactions :
       /\ Distinct(transactions[id].approvers)
       /\ transactions[id].current_approvals = Len(transactions[id].approvers)

\* C17 witness: a stored transaction with two approvals
C17_Witness ==
    \E id \in DOMAIN transactions :
       /\ Len(transactions[id].approvers) = 2
       /\ transactions[id].current_approvals = 2

\* C18: approve_transaction and reject_transaction called on a Pending
\* transaction by an address outside the signer set return Unauthorized and
\* leave the transaction as it was: such a call never gets to its save;
\* hence every address in an approvers list is a signer, and a transaction
\* becomes Rejected only by the save of a signer's reject_transaction call.
C18_OnlySignersApproveOrReject ==
    /\ [](\A id \in DOMAIN transactions :
            \A i \in 1..Len(transactions[id].approvers) :
               transactions[id].approvers[i] \in get_signers)
    /\ [][
          /\ \A p \in Procs :
                (/\ pc[p] = "idle"
                 /\ pc'[p] \in {"approve_transaction_save", "reject_transaction_save"})
                  => loc'[p].who \in get_signers
          /\ (/\ ret'.op \in {"approve_transaction", "reject_transaction"}
              /\ ret'.who \notin get_signers
              /\ ret'.id \in DOMAIN transactions)
               => /\ transactions' = transactions
                  /\ transactions[ret'.id].status = "Pending"
                       => ret'.res = "Unauthorized"
          /\ \A id \in DOMAIN transactions :
                (transactions[id].status # "Rejected"
                   /\ transactions'[id].status = "Rejected")
                  => \E p \in Procs :
                        /\ pc[p] = "reject_transaction_save"
                        /\ loc[p].id = id
                        /\ loc[p].who \in get_signers
       ]_vars

\* C18 witness: an address outside the signer set has just been refused the
\* rejection of a Pending transaction that a signer had approved
C18_Witness ==
    /\ ret.op = "reject_transaction" /\ ret.res = "Unauthorized"
    /\ ret.who \notin get_signers
    /\ transactions[ret.id].status = "Pending"
    /\ Len(transactions[ret.id].approvers) = 1

\* C19: when the ledger transfer made by execute_transaction fails, the
\* transaction is stored with status Failed and the error in its metadata
\* and the error is returned to the caller; a transaction stored as Failed
\* is never afterwards stored as Pending or Approved.
C19_FailedIsRecordedAndFinal ==
    [][
        /\ \A p \in Procs :
              (pc[p] = "execute_transaction_save" /\ pc'[p] = "idle"
                 /\ loc[p].result # "Ok")
               => /\ transactions'[loc[p].id].status = "Failed"
                  /\ transactions'[loc[p].id].metadata = loc[p].result
                  /\ ret'.res = loc[p].result
        /\ \A id \in DOMAIN transactions :
              transactions[id].status = "Failed"
                => transactions'[id].status \notin {"Pending", "Approved"}
      ]_vars

\* C20: an approve_transaction call that brings current_approvals up to
\* required_approvals stores status Approved and goes on to execute the
\* transaction before it returns, and when it returns the stored status is
\* Executed or Failed.
C20_ThresholdApprovalExecutes ==
    [][\A p \in Procs :
         /\ (/\ pc[p] = "approve_transaction_save"
             /\ pc'[p] # pc[p]
             /\ loc[p].transaction.current_approvals
                  >= loc[p].transaction.required_approvals)
              => /\ transactions'[loc[p].id].status = "Approved"
                 /\ pc'[p] = "approve_transaction_execute"
         /\ (/\ loc[p].op = "approve_transaction"
             /\ pc[p] \in {"approve_transaction_execute", "execute_transaction_save"}
             /\ pc'[p] = "idle")
              => transactions'[loc[p].id].status \in {"Executed", "Failed"}
      ]_vars

\* DaoError::InvalidParameter(_) and DaoError::Unauthorized
IsValidationError(res) ==
    res \in {"InvalidParameter", "Unauthorized", NotPending, AlreadyApproved}

\* C21: a public operation of ProposalManager or TreasuryManager that
\* returns InvalidParameter or Unauthorized leaves the stored proposals,
\* transactions and ledger balances as they were: the step that returns
\* such an error changes none of them.
C21_ValidationErrorChangesNothing ==
    [][IsValidationError(ret'.res)
         => UNCHANGED <<proposals, transactions, token_balances>>]_vars

\* C22: process_proposals is idempotent.  An invocation that starts when
\* another has just returned, with no operation in between, returns at once
\* and stores nothing; and a step of any invocation leaves as it was every
\* stored proposal that is not in Voting or whose voting_ends_at has not
\* passed (no second tally, no state change of a finalized proposal).
C22_ProcessProposalsIdempotent ==
    [][\A p \in Procs :
         /\ (/\ ret.op = "process_proposals"
             /\ \A q \in Procs : pc[q] = "idle"
             /\ pc'[p] # pc[p] \/ ret'.op = "process_proposals")
              => /\ pc'[p] # "finalize_vote"
                 /\ proposals' = proposals
         /\ ((pc[p] = "finalize_vote" /\ loc'[p] # loc[p])
               \/ (pc[p] = "idle" /\ pc'[p] = "finalize_vote"))
              => \A id \in DOMAIN proposals :
                   (proposals[id].state # "Voting" \/ ~voting_ended(proposals[id]))
                     => /\ id \in DOMAIN proposals'
                        /\ proposals'[id] = proposals[id]
      ]_vars

\* C23: with time advancing and the sweep invoked again and again, every
\* proposal that enters Voting eventually leaves it, as Approved, Rejected
\* or Cancelled, and it becomes Approved or Rejected only after its
\* voting_ends_at has passed.  (The clock of the model stops at MaxTime, so
\* time advances past the voting periods that end before MaxTime.)
C23_VotingEventuallyLeft ==
    /\ \A id \in Ids :
         (/\ id \in DOMAIN proposals
          /\ proposals[id].state = "Voting"
          /\ \E t \in proposals[id].voting_ends_at : t < MaxTime)
           ~> (/\ id \in DOMAIN proposals
               /\ proposals[id].state \in {"Approved", "Rejected", "Cancelled"})
    /\ [][\A id \in DOMAIN proposals :
            (proposals[id].state = "Voting" /\ proposals'[id].state # "Voting")
              => \/ proposals'[id].state = "Cancelled"
                 \/ /\ proposals'[id].state \in {"Approved", "Rejected"}
                    /\ \E t \in proposals[id].voting_ends_at : now > t
         ]_vars

\* C23 witness: the sweep has just finalized a proposal on which a vote had
\* been cast.
C23_Witness ==
    /\ ret.op = "process_proposals"
    /\ \E id \in DOMAIN proposals :
         /\ proposals[id].state \in {"Approved", "Rejected"}
         /\ \E t \in proposals[id].voting_ends_at : t < MaxTime
         /\ Len(proposals[id].votes) > 0

\* C24: cancel_proposal stores state Cancelled (and returns Ok) exactly when
\* the proposal it loaded is in Draft or Voting and the canceller is its
\* proposer; for a proposal in another state it returns InvalidParameter,
\* for a Draft or Voting proposal and another canceller Unauthorized, and a
\* call that fails stores nothing.  Only cancel_proposal stores Cancelled.
C24_CancelContract ==
    [][
        /\ \A p \in Procs :
             \* the call returns from its checks
             /\ (/\ pc[p] = "idle" /\ pc' = pc
                 /\ ret'.op = "cancel_proposal"
                 /\ ret'.id \in DOMAIN proposals)
                  => LET old == proposals[ret'.id] IN
                     /\ proposals' = proposals
                     /\ old.state \notin {"Draft", "Voting"}
                          => ret'.res = "InvalidParameter"
                     /\ old.state \in {"Draft", "Voting"}
                          => /\ ret'.res = "Unauthorized"
                             /\ old.proposer # ret'.who
             \* the call goes on to its save
             /\ (pc[p] = "idle" /\ pc'[p] = "cancel_proposal_save")
                  => /\ proposals[loc'[p].id].state \in {"Draft", "Voting"}
                     /\ proposals[loc'[p].id].proposer = loc'[p].who
                     /\ proposals' = proposals
             \* the save
             /\ (pc[p] = "cancel_proposal_save" /\ pc'[p] = "idle")
                  => /\ ret'.res = "Ok"
                     /\ proposals'[loc[p].id].state = "Cancelled"
                     /\ \A id \in DOMAIN proposals \ {loc[p].id} :
                          proposals'[id] = proposals[id]
        /\ \A id \in DOMAIN proposals :
             (proposals[id].state # "Cancelled" /\ proposals'[id].state = "Cancelled")
               => \E p \in Procs :
                    /\ pc[p] = "cancel_proposal_save" /\ pc'[p] = "idle"
                    /\ loc[p].id = id
      ]_vars

\* C24 witness: the proposer has just cancelled a proposal whose voting had
\* been opened
C24_Witness ==
    /\ ret.op = "cancel_proposal" /\ ret.res = "Ok"
    /\ proposals[ret.id].state = "Cancelled"
    /\ proposals[ret.id].voting_starts_at # {}
    /\ proposals[ret.id].proposer = ret.who

\* the type-specific fields are non-empty, non-zero and valid addresses
FieldsValid(ptype, f) ==
    CASE ptype = "Transfer" -> f.address_valid /\ f.amount > 0 /\ f.name # ""
      [] ptype = "ContractCall" -> f.address_valid /\ f.name # ""
      [] ptype = "ParameterChange" -> f.name # "" /\ ~f.value_null
      [] ptype = "TextProposal" -> TRUE

\* C25: submit_proposal stores the proposal, in Draft with zero tallies and
\* no votes, only if the proposer's balance is >= the proposal threshold
\* and the type-specific fields are valid; with a lower balance it returns
\* Unauthorized, with an invalid field InvalidParameter, and then it stores
\* nothing.
C25_SubmitContract ==
    [][ret'.op = "submit_proposal" =>
         LET r == ret'
             enough == \E b \in r.balance : b >= config.proposal_threshold
             low == \E b \in r.balance : b < config.proposal_threshold
         IN /\ proposals' # proposals
                 => /\ enough /\ FieldsValid(r.proposal_type, r.fields)
                    /\ r.res = "Ok"
                    /\ r.id \notin DOMAIN proposals
                    /\ DOMAIN proposals' = DOMAIN proposals \cup {r.id}
                    /\ \A id \in DOMAIN proposals : proposals'[id] = proposals[id]
                    /\ proposals'[r.id].state = "Draft"
                    /\ proposals'[r.id].proposer = r.who
                    /\ proposals'[r.id].proposal_type = r.proposal_type
                    /\ proposals'[r.id].yes_votes = 0
                    /\ proposals'[r.id].no_votes = 0
                    /\ proposals'[r.id].abstain_votes = 0
                    /\ proposals'[r.id].votes = << >>
            /\ r.res = "Ok" => proposals' # proposals
            /\ low => r.res = "Unauthorized" /\ proposals' = proposals
            /\ (enough /\ ~FieldsValid(r.proposal_type, r.fields))
                 => r.res = "InvalidParameter" /\ proposals' = proposals
      ]_vars

\* C25 witness: a Transfer proposal has just been submitted and stored
C25_Witness ==
    /\ ret.op = "submit_proposal" /\ ret.res = "Ok"
    /\ ret.proposal_type = "Transfer"
    /\ proposals[ret.id].state = "Draft"

\* C26: start_voting succeeds only on a proposal in Draft, and then stores
\* state Voting with voting_starts_at = now (the time the handler read) and
\* voting_ends_at = now + the configured voting period; on a proposal in
\* another state it returns InvalidParameter and stores nothing.  So every
\* stored proposal in Voting has both bounds set, voting_starts_at <=
\* voting_ends_at.
C26_StartVotingContract ==
    /\ [](\A id \in DOMAIN proposals :
            proposals[id].state = "Voting"
              => \E s \in proposals[id].voting_starts_at,
                    e \in proposals[id].voting_ends_at : s <= e)
    /\ [][\A p \in Procs :
            \* the call returns from its check
            /\ (/\ pc[p] = "idle" /\ pc' = pc
                /\ ret'.op = "start_voting"
                /\ ret'.id \in DOMAIN proposals)
                 => /\ proposals[ret'.id].state # "Draft"
                    /\ ret'.res = "InvalidParameter"
                    /\ proposals' = proposals
            \* the call goes on to its save
            /\ (pc[p] = "idle" /\ pc'[p] = "start_voting_save")
                 => LET old == proposals[loc'[p].id]
                        new == loc'[p].proposal
                    IN /\ old.state = "Draft"
                       /\ new = [old EXCEPT
                                   !.state = "Voting",
                                   !.voting_starts_at = {now},
                                   !.voting_ends_at = {now + voting_period_days}]
                       /\ proposals' = proposals
            \* the save
            /\ (pc[p] = "start_voting_save" /\ pc'[p] = "idle")
                 => /\ ret'.res = "Ok"
                    /\ proposals' = [i \in DOMAIN proposals \cup {loc[p].id} |->
                                       IF i = loc[p].id THEN loc[p].proposal
                                       ELSE proposals[i]]
         ]_vars

\* C26 witness: start_voting has just opened, at time 1, the voting of a
\* proposal
C26_Witness ==
    /\ ret.op = "start_voting" /\ ret.res = "Ok"
    /\ proposals[ret.id].state = "Voting"
    /\ proposals[ret.id].voting_starts_at = {1}
    /\ proposals[ret.id].voting_ends_at = {1 + voting_period_days}

\* C27: create_transaction stores the transaction, Pending with
\* current_approvals = 0 and no approvers, only if the token exists and the
\* treasury's balance of the token is >= the amount; when the token does
\* not exist or the balance is lower it returns InvalidParameter and stores
\* nothing.
C27_CreateContract ==
    [][ret'.op = "create_transaction" =>
         LET r == ret'
             known == r.token \in Tokens
             \* the treasury's balance of the token is known and covers the amount
             funded ==
                 IF r.token = governance_token
                 THEN \E b \in r.chain_balance : b >= r.amount
                 ELSE token_balances["0xTreasury"] >= r.amount
             short ==
                 IF r.token = governance_token
                 THEN \E b \in r.chain_balance : b < r.amount
                 ELSE token_balances["0xTreasury"] < r.amount
         IN /\ transactions' # transactions
                 => /\ known /\ funded
                    /\ r.res = "Ok"
                    /\ r.id \notin DOMAIN transactions
                    /\ DOMAIN transactions' = DOMAIN transactions \cup {r.id}
                    /\ \A id \in DOMAIN transactions :
                         transactions'[id] = transactions[id]
                    /\ transactions'[r.id].status = "Pending"
                    /\ transactions'[r.id].current_approvals = 0
                    /\ transactions'[r.id].approvers = << >>
                    /\ transactions'[r.id].token = r.token
                    /\ transactions'[r.id].amount = r.amount
            /\ r.res = "Ok" => transactions' # transactions
            /\ (~known \/ short)
                 => r.res = "InvalidParameter" /\ transactions' = transactions
            /\ UNCHANGED <<token_balances, transfers>>
      ]_vars

\* C27 witness: a transaction of the whole treasury balance of a ledger
\* token has just been created
C27_Witness ==
    /\ ret.op = "create_transaction" /\ ret.res = "Ok"
    /\ ret.token # governance_token
    /\ ret.amount = token_balances["0xTreasury"]
    /\ transactions[ret.id].status = "Pending"

\* the votes of the scenario: 600 yes, 300 no (the abstention of the voter
\* without voting power is not recorded)
ScenarioVotes(proposal) ==
    /\ Len(proposal.votes) = 2
    /\ Range(proposal.votes) = {Vote("v1", "Yes", 600), Vote("v2", "No", 300)}

\* C28: end to end, with proposal threshold 500, quorum 20%, majority 50%
\* and token-weighted voting.  The proposer with balance 1000 submits a
\* valid Transfer proposal successfully; the voters with power 600 and 300
\* vote with that weight, and the voter with power 0 adds nothing; once the
\* window has elapsed process_proposals finds total 900 and yes 600 and
\* stores Approved; execute_proposal then dispatches the transfer and the
\* proposal is stored as Executed.
C28_EndToEnd ==
    [][\A p \in Procs :
         \* submit
         /\ (/\ ret'.op = "submit_proposal"
             /\ ret'.who = "a1" /\ ret'.balance = {1000}
             /\ ret'.fields.title # "" /\ ret'.fields.description # ""
             /\ FieldsValid(ret'.proposal_type, ret'.fields))
              => /\ ret'.res = "Ok"
                 /\ proposals'[ret'.id].state = "Draft"
         \* votes
         /\ (pc[p] = "idle" /\ pc'[p] = "vote_save")
              => /\ loc'[p].who = "v1" => loc'[p].voting_power = 600
                 /\ loc'[p].who = "v2" => loc'[p].voting_power = 300
                 /\ loc'[p].who # "v3"
         /\ (ret'.op = "vote" /\ ret'.who = "v3")
              => ret'.res # "Ok" /\ proposals' = proposals
         \* finalization
         /\ (/\ pc[p] = "finalize_vote" /\ loc'[p] # loc[p]
             /\ ScenarioVotes(proposals[Head(loc[p].queue).id]))
              => LET id == Head(loc[p].queue).id
                     old == proposals[id]
                     total == old.yes_votes + old.no_votes + old.abstain_votes
                 IN /\ total = 900 /\ old.yes_votes = 600
                    /\ total >= 180 /\ old.yes_votes >= 450
                    /\ \E t \in old.voting_ends_at : now > t
                    /\ proposals'[id] = [old EXCEPT !.state = "Approved"]
         \* execution
         /\ (/\ pc[p] = "idle" /\ pc'[p] = "execute_proposal_save"
             /\ proposals[loc'[p].id].proposal_type = "Transfer")
              => /\ proposals[loc'[p].id].state = "Approved"
                 /\ dispatched'[loc'[p].id] = dispatched[loc'[p].id] + 1
         /\ (pc[p] = "execute_proposal_save" /\ pc'[p] = "idle")
              => /\ ret'.res = "Ok"
                 /\ proposals'[loc[p].id].state = "Executed"
         \* the outcome cannot be another one
         /\ \A id \in DOMAIN proposals' :
              (ScenarioVotes(proposals'[id])
                 /\ \E t \in proposals'[id].voting_ends_at : now' > t)
                => proposals'[id].state \in {"Voting", "Approved", "Executed"}
      ]_vars

\* C28 witness: the Transfer proposal of the scenario, with 600 yes and 300
\* no, has been executed with one transfer dispatched
C28_Witness ==
    /\ ret.op = "execute_proposal" /\ ret.res = "Ok"
    /\ \E id \in DOMAIN proposals :
         /\ proposals[id].proposal_type = "Transfer"
         /\ proposals[id].proposer = "a1"
         /\ ScenarioVotes(proposals[id])
         /\ proposals[id].yes_votes = 600
         /\ proposals[id].no_votes = 300
         /\ proposals[id].abstain_votes = 0
         /\ proposals[id].state = "Executed"
         /\ dispatched[id] = 1

\* C29: has_permission(Admin, resource, action) is true for every resource
\* and action, the unknown ones included, after any sequence of
\* grant_permission and revoke_permission calls, revocations from the Admin
\* role included.
C29_AdminAlwaysAuthorized ==
    /\ \A resource \in Resources, permission \in Permissions :
         has_permission(permissions, "Admin", resource, permission)
    /\ (ret.op = "has_permission" /\ ret.role = "Admin") => ret.value

\* C29 witness: Admin has just been told it may delete proposals although
\* that permission has been revoked from the Admin role
C29_Witness ==
    /\ ret.op = "has_permission" /\ ret.role = "Admin"
    /\ ret.resource = "proposal" /\ ret.permission = "delete"
    /\ "delete" \notin permissions["Admin"]["proposal"]
    /\ ret.value

\* the default table: what Member, Delegate and Council may do
MemberTable ==
    ({"proposal", "vote"} \X {"create", "read"})
      \cup ({"token", "treasury", "member", "settings"} \X {"read"})
DelegateTable == MemberTable \cup {<<"proposal", "update">>}
CouncilTable ==
    DelegateTable
      \cup {<<"proposal", "delete">>, <<"token", "create">>, <<"treasury", "create">>,
            <<"member", "update">>, <<"settings", "update">>}
DefaultTable(role) ==
    CASE role = "Member" -> MemberTable
      [] role = "Delegate" -> DelegateTable
      [] role = "Council" -> CouncilTable

\* C30: on a freshly constructed PermissionManager, has_permission(role,
\* resource, action) for a role other than Admin is true exactly for the
\* default table (Member: create/read on proposal and vote, read on token,
\* treasury, member and settings; Delegate: also update on proposal;
\* Council: also delete on proposal, create on token and treasury, update
\* on member and settings); an unknown resource or action is denied.
C30_DefaultTable ==
    permissions = init_default_permissions
      => /\ \A role \in MemberRole \ {"Admin"}, resource \in Resources,
               permission \in Permissions :
              has_permission(permissions, role, resource, permission)
                <=> <<resource, permission>> \in DefaultTable(role)
         /\ (ret.op = "has_permission" /\ ret.role # "Admin")
              => (ret.value <=> <<ret.resource, ret.permission>> \in DefaultTable(ret.role))

\* C30 witness: on the fresh manager Member has just been denied the
\* deletion of proposals
C30_Witness ==
    /\ permissions = init_default_permissions
    /\ ret.op = "has_permission" /\ ret.role = "Member"
    /\ ret.resource = "proposal" /\ ret.permission = "delete"
    /\ ~ret.value

\* C31: for every role other than Admin, has_permission(role, resource, p) is
\* true after grant_permission(role, resource, p) and false after
\* revoke_permission(role, resource, p); doing either a second time changes
\* nothing, revoking a permission that is absent changes nothing, and neither
\* changes has_permission for another (role, resource, permission).  The laws
\* hold of the two operations on the table of every state, and every call
\* that was made obeys them.
Triples == MemberRole \X Resources \X Permissions

GrantRevokeLaws(table, role, resource, permission) ==
    LET g == granted(table, role, resource, permission)
        r == revoked(table, role, resource, permission)
    IN /\ role # "Admin" =>
            /\ has_permission(g, role, resource, permission)
            /\ ~has_permission(r, role, resource, permission)
            /\ ~has_permission(table, role, resource, permission) => r = table
       /\ granted(g, role, resource, permission) = g
       /\ revoked(r, role, resource, permission) = r

OthersKept(before, after, role, resource, permission) ==
    \A o \in Triples \ {<<role, resource, permission>>} :
       has_permission(after, o[1], o[2], o[3]) = has_permission(before, o[1], o[2], o[3])

C31_GrantRevoke ==
    /\ [](\A t \in Triples : GrantRevokeLaws(permissions, t[1], t[2], t[3]))
    /\ [][/\ ret'.op = "grant_permission" =>
              /\ ret'.role # "Admin" =>
                   has_permission(permissions', ret'.role, ret'.resource,
                                  ret'.permission)
              /\ OthersKept(permissions, permissions', ret'.role, ret'.resource,
                            ret'.permission)
          /\ ret'.op = "revoke_permission" =>
              /\ ret'.role # "Admin" =>
                   /\ ~has_permission(permissions', ret'.role, ret'.resource,
                                      ret'.permission)
                   /\ ~has_permission(permissions, ret'.role, ret'.resource,
                                      ret'.permission)
                        => permissions' = permissions
              /\ OthersKept(permissions, permissions', ret'.role, ret'.resource,
                            ret'.permission)
        ]_vars

\* a permission that init_default_permissions gave Member has been revoked,
\* and one that it did not give has been granted
C31_Witness ==
    /\ ret.op = "grant_permission"
    /\ ret.role = "Member"
    /\ has_permission(permissions, "Member", "unknown_resource", "unknown_permission")
    /\ has_permission(permissions, "Member", "proposal", "delete")
    /\ ~has_permission(init_default_permissions, "Member", "proposal", "delete")

\* the square root of a u64 rounded down, in whole-number arithmetic
FloorSqrt(b) == isqrt(b, 31, 0, [root |-> U64(0), rem |-> U64(0)]).root

\* C32: for every balance b the quadratic strategy's calculate_weight returns
\* the value floor(sqrt(b)), the largest whole number w with w * w <= b; in
\* particular 0 for 0, 10 for 100 and 100 for 10000.
C32_QuadraticIsFloorSqrt ==
    (ret.op = "calculate_weight" /\ ret.strategy = "QuadraticVoting") =>
       /\ ret.res = "Ok"
       /\ ret.value = FloorSqrt(ret.balance)
       /\ BitLen(ret.balance) <= 30 =>
            LET w == Num(ret.value)
            IN w * w <= Num(ret.balance) /\ Num(ret.balance) < (w + 1) * (w + 1)
       /\ ret.balance = U64(0) => ret.value = U64(0)
       /\ ret.balance = U64(100) => ret.value = U64(10)
       /\ ret.balance = U64(10000) => ret.value = U64(100)

\* C33: for every balance b the conviction strategy's calculate_weight
\* returns the value b * min(5, max_conviction), whatever conviction_per_block
\* is: 500 for 100 with the default maximum of 10, 300 for 100 with
\* with_params(3, 2), and 0 for 0.
C33_ConvictionIsBalanceTimesFactor ==
    (ret.op = "calculate_weight" /\ ret.strategy = "ConvictionVoting") =>
       LET factor == IF 5 < ret.self.max_conviction THEN 5
                     ELSE ret.self.max_conviction
       IN /\ ret.res = "Ok"
          /\ ret.value = MulAdd(ret.balance, factor, 0)
          /\ (ret.balance = U64(100) /\ ret.self = ConvictionVoting_new)
               => ret.value = U64(500)
          /\ (ret.balance = U64(100) /\ ret.self = with_params(3, 2))
               => ret.value = U64(300)
          /\ ret.balance = U64(0) => ret.value = U64(0)

\* C34: the voting strategy is the one GovernanceEngine::new selects for the
\* configuration label: quadratic for "Quadratic", conviction for
\* "Conviction", token-weighted for every other label; under token-weighted,
\* get_voting_weight(address).value is the balance of the address.
C34_StrategyFromLabel ==
    /\ config.governance_token = "Quadratic" => voting_strategy = "QuadraticVoting"
    /\ config.governance_token = "Conviction" => voting_strategy = "ConvictionVoting"
    /\ config.governance_token \notin {"Quadratic", "Conviction"}
         => voting_strategy = "TokenWeightedVoting"
    /\ (ret.op = "get_voting_weight" /\ ret.res = "Ok") =>
         /\ config.governance_token \notin {"Quadratic", "Conviction"}
              => ret.value = U64(ret.balance)
         /\ (config.governance_token = "Quadratic" /\ ret.balance = 10000)
              => ret.value = U64(100)
         /\ (config.governance_token = "Conviction" /\ ret.balance = 100)
              => ret.value = U64(500)

\* an engine made for a label that is neither "Quadratic" nor "Conviction"
\* has answered a balance of 10000 with the weight 10000
C34_Witness ==
    /\ config.governance_token = "quadratic"
    /\ ret.op = "get_voting_weight" /\ ret.res = "Ok"
    /\ ret.balance = 10000
    /\ ret.value = U64(10000)

\* the amounts the table holds for the pair, added up
RECURSIVE PairSum(_, _, _)
PairSum(table, delegator, delegate) ==
    IF table = << >> THEN 0
    ELSE (IF Head(table).delegator = delegator /\ Head(table).delegate = delegate
          THEN Head(table).amount ELSE 0) + PairSum(Tail(table), delegator, delegate)

\* the pairs other than (delegator, delegate) hold what they held
OtherPairsKept(before, after, delegator, delegate) ==
    \A d \in Addr, g \in Addr :
        (d # delegator \/ g # delegate) => PairSum(after, d, g) = PairSum(before, d, g)

\* the sum of a set of addresses' amounts for the delegate
RECURSIVE DelegatedBy(_, _, _)
DelegatedBy(table, ds, delegate) ==
    IF ds = {} THEN 0
    ELSE LET d == CHOOSE x \in ds : TRUE
         IN PairSum(table, d, delegate) + DelegatedBy(table, ds \ {d}, delegate)

\* C35: every pair starts at 0; a successful delegate_voting_power adds the
\* balance it read, which is not 0, to its pair and to no other, each time it
\* is called; one that read 0 fails with Unauthorized and adds nothing;
\* revoke_delegation empties its pair and no other, and changes nothing when
\* the pair held nothing; every other step keeps the table, whatever the
\* balances become; get_delegated_voting_power returns the sum of the
\* delegate's pairs
C35_DelegatedPowerIsSumOfSnapshots ==
    /\ \A d \in Addr, g \in Addr : PairSum(delegations, d, g) = 0
    /\ [][/\ ret'.op = "delegate_voting_power" /\ ret'.res = "Ok"
             => /\ ret'.balance \in blockchain[ret'.who] \ {0}
                /\ PairSum(delegations', ret'.who, ret'.delegate)
                     = PairSum(delegations, ret'.who, ret'.delegate) + ret'.balance
                /\ OtherPairsKept(delegations, delegations', ret'.who, ret'.delegate)
          /\ ret'.op = "delegate_voting_power" /\ ret'.res # "Ok"
             => /\ delegations' = delegations
                /\ ret'.res \in {"Unauthorized", "BlockchainError"}
                /\ ret'.res = "Unauthorized" => ret'.balance = 0
          /\ ret'.op = "revoke_delegation"
             => /\ ret'.res = "Ok"
                /\ PairSum(delegations', ret'.who, ret'.delegate) = 0
                /\ OtherPairsKept(delegations, delegations', ret'.who, ret'.delegate)
                /\ PairSum(delegations, ret'.who, ret'.delegate) = 0
                     => delegations' = delegations
          /\ ret'.op = "get_delegated_voting_power"
             => /\ ret'.res = "Ok"
                /\ ret'.value = DelegatedBy(delegations, Addr, ret'.who)
                /\ delegations' = delegations
          /\ ret'.op \notin {"delegate_voting_power", "revoke_delegation"}
             => delegations' = delegations]_vars

\* a delegate asked for its power while it holds two delegations of the same
\* delegator, made at different balances
C35_Witness ==
    /\ ret.op = "get_delegated_voting_power"
    /\ ret.value = 3
    /\ Len(delegations) = 2
    /\ delegations[1].delegator = delegations[2].delegator
    /\ delegations[1].delegate = ret.who
    /\ delegations[2].delegate = ret.who
    /\ delegations[1].amount # delegations[2].amount

\* the three tallies of a proposal, added up
TallyTotal(proposal) == proposal.yes_votes + proposal.no_votes + proposal.abstain_votes

\* C36: a vote call that returns success leaves its own Vote in the stored
\* list and keeps the Vote of every other voter that was stored before it,
\* with the tallies grown by its weight: no vote that succeeded is lost by the
\* save of a concurrent vote call of a different voter.
C36_NoSuccessfulVoteLost ==
    [][\A p \in Procs :
         (pc[p] = "vote_save" /\ pc'[p] = "idle" /\ ret'.op = "vote" /\ ret'.res = "Ok"
            /\ ~has_voted(proposals[loc[p].id], loc[p].who))
           => /\ has_voted(proposals'[loc[p].id], loc[p].who)
              /\ \A v \in Addr :
                   has_voted(proposals[loc[p].id], v) => has_voted(proposals'[loc[p].id], v)
              /\ TallyTotal(proposals'[loc[p].id])
                   = TallyTotal(proposals[loc[p].id]) + loc[p].voting_power]_vars

\* C37: when an approve_transaction call returns Ok from its save, its signer
\* and every signer whose call returned Ok before it are in the stored
\* approvers list, and current_approvals is the number of these signers.
C37_NoSuccessfulApprovalLost ==
    [][\A p \in Procs :
         (pc[p] = "approve_transaction_save" /\ pc'[p] = "idle"
            /\ ret'.op = "approve_transaction" /\ ret'.res = "Ok")
           => /\ Contains(transactions'[loc[p].id].approvers, loc[p].who)
              /\ \A a \in acknowledged[loc[p].id] :
                   Contains(transactions'[loc[p].id].approvers, a)
              /\ transactions'[loc[p].id].current_approvals
                   = Cardinality(acknowledged'[loc[p].id])]_vars

\* C38: a transaction is stored as Rejected only by a reject_transaction call
\* that returns Ok; from then on no step stores it as Approved or Executed and
\* no step makes its ledger transfer.
C38_RejectedStaysUnpaid ==
    [][\A id \in DOMAIN transactions :
         transactions[id].status = "Rejected"
           => /\ transactions'[id].status \notin {"Approved", "Executed"}
              /\ transfers'[id] = transfers[id]]_vars

\* C39: for each proposal the external effect of its execution
\* (send_transaction or call_contract) is dispatched at most once, however
\* the execute_proposal calls on it interleave.
C39_EffectDispatchedOnce ==
    \A id \in Ids : dispatched[id] <= 1

\* C40: with majority_percentage > 0, process_proposals never stores as
\* Approved a proposal whose yes_votes is 0, be it one nobody voted on or one
\* whose votes are all no or abstain.
C40_NoYesNeverApproved ==
    [][\A p \in Procs :
         (pc[p] = "finalize_vote" /\ loc'[p] # loc[p]) =>
           LET id == Head(loc[p].queue).id
           IN (config.majority_percentage > 0 /\ proposals[id].yes_votes = 0)
                => proposals'[id].state # "Approved"
      ]_vars

====
